---- MODULE Spec2Model ----
(***************************************************************************)
(* SpatialIndex of bokehjs (src/bokehjs/src/lib/core/util/spatial.ts): the *)
(* facade SpatialIndex, the traversal _FlatBush.search_apply with its two  *)
(* folds search_indices and search_bounds, and the packed tree of the      *)
(* flatbush dependency (constructor, add, finish) they run on.             *)
(*                                                                         *)
(* Numbers are IEEE doubles in the program.  The model keeps the integers  *)
(* of small magnitude as themselves and gives +Infinity, -Infinity and NaN *)
(* their own codes; the comparison and arithmetic operators below follow   *)
(* IEEE on those codes (every comparison with NaN is false, Inf - Inf is   *)
(* NaN).  A read outside a typed array is `undefined`, which compares like *)
(* NaN, and is modelled by the NaN code.                                   *)
(***************************************************************************)
EXTENDS Integers, Sequences, FiniteSets, TLC

\* ------------------------------------------------------------------ bounds
\* Capacities 1..MaxSmall are built from every sequence of SmallInputs.
MaxSmall == 2
\* Finite coordinates of the small inputs are 0..MaxCoord.
MaxCoord == 1
\* The capacity of the multi-level inputs (more than nodeSize items).
BigSize == 17
\* Add calls made beyond the capacity (before or after finish()).
ExtraAdds == 1
\* Traversals running at the same time on one index (SpecTraverse).
NumTraversals == 2

\* ----------------------------------------------------------------- numbers
PInf == 1000000
NInf == -PInf
NaN == 2000000
\* The numbers of small magnitude are the integers up to SmallMax in absolute
\* value (the coordinates of the inputs) and their sums; the sum of four of
\* them (x0 + y0 + x1 + y1) stays at or below HugeZero.
SmallMax == 220000
\* Number.MAX_VALUE, the largest finite double, and a double above half of it
\* (1.4e308, say): the sum of two such doubles overflows to +Infinity, and the
\* sum of one of them and a number of small magnitude is the double itself.
\* The doubles of that magnitude are the sums a * MAX_VALUE + b * 1.4e308 of a
\* few such operands; their codes lie beyond HugeZero, above every sum of four
\* numbers of small magnitude, HugeUnit apart, with MAX_VALUE counted as 5
\* units and 1.4e308 as 4, so that MAX_VALUE - 1.4e308 (3.98e307) is one unit.
\* For the sums of up to four operands the codes keep the order of the doubles
\* and overflow where the doubles do.
MaxValue == 950000
NearMax == 940000
HugeUnit == MaxValue - NearMax
HugeZero == MaxValue - 5 * HugeUnit
IsHuge(a) == a > HugeZero \/ a < -HugeZero

\* The units of a double of the magnitude of MAX_VALUE, and the double of k
\* units; beyond MAX_VALUE the sum has overflowed.
HugeUnits(a) ==
  IF a > 0 THEN (a - HugeZero) \div HugeUnit ELSE 0 - ((0 - a - HugeZero) \div HugeUnit)
FromHugeUnits(k) ==
  IF k = 0 THEN 0
  ELSE IF k > 5 THEN PInf
  ELSE IF k < -5 THEN NInf
  ELSE IF k > 0 THEN HugeZero + k * HugeUnit
  ELSE 0 - (HugeZero - k * HugeUnit)

IsNaN(a) == a = NaN
IsFinite(a) == a # NaN /\ a # PInf /\ a # NInf

Lt(a, b) == ~IsNaN(a) /\ ~IsNaN(b) /\ a < b
Gt(a, b) == ~IsNaN(a) /\ ~IsNaN(b) /\ a > b
Le(a, b) == ~IsNaN(a) /\ ~IsNaN(b) /\ a <= b
Ge(a, b) == ~IsNaN(a) /\ ~IsNaN(b) /\ a >= b

\* a + b on doubles: two doubles of the magnitude of MAX_VALUE add exactly or
\* overflow; a number of small magnitude added to one of them is absorbed.
Plus(a, b) ==
  IF IsNaN(a) \/ IsNaN(b) THEN NaN
  ELSE IF a = PInf THEN (IF b = NInf THEN NaN ELSE PInf)
  ELSE IF a = NInf THEN (IF b = PInf THEN NaN ELSE NInf)
  ELSE IF b = PInf \/ b = NInf THEN b
  ELSE IF IsHuge(a) /\ IsHuge(b) THEN FromHugeUnits(HugeUnits(a) + HugeUnits(b))
  ELSE IF IsHuge(a) THEN a
  ELSE IF IsHuge(b) THEN b
  ELSE a + b

\* Math.min / Math.max: NaN if either argument is NaN.
MathMin(a, b) == IF IsNaN(a) \/ IsNaN(b) THEN NaN ELSE IF a < b THEN a ELSE b
MathMax(a, b) == IF IsNaN(a) \/ IsNaN(b) THEN NaN ELSE IF a > b THEN a ELSE b

IntMin(a, b) == IF a < b THEN a ELSE b

\* A rectangle is <<x0, y0, x1, y1>>.
empty == <<PInf, PInf, NInf, NInf>>
full == <<NInf, NInf, PInf, PInf>>

\* ----------------------------------------------------------- typed arrays
\* arr[i] of a typed array (0-based); `undefined` outside it.
At(arr, i) == IF i >= 0 /\ i < Len(arr) THEN arr[i + 1] ELSE NaN
\* arr[i] = v; a write outside a typed array is dropped.
SetAt(arr, i, v) == IF i >= 0 /\ i < Len(arr) THEN [arr EXCEPT ![i + 1] = v] ELSE arr
\* x | 0 of an array element that may be `undefined`.
OrZero(x) == IF IsNaN(x) THEN 0 ELSE x

\* TRUE, once acc is computed.  The loops below hand their accumulators on
\* computed, pass by pass, as the program does, and not as an expression that
\* grows with every pass.
Computed(acc) == acc = acc

\* ---------------------------------------------------- flatbush: constructor
\* The node size flatbush uses when the caller gives none.
nodeSize == 16

CeilDiv(a, b) == (a + b - 1) \div b

\* The do-while of the constructor: the number of nodes and the end offset of
\* every level, from n boxes on the level just counted.
RECURSIVE LevelLoop(_, _, _)
LevelLoop(n, numNodes, bounds) ==
  LET n2 == CeilDiv(n, nodeSize)
      numNodes2 == numNodes + n2
      bounds2 == Append(bounds, numNodes2 * 4)
  IN IF n2 # 1 THEN LevelLoop(n2, numNodes2, bounds2)
     ELSE [numNodes |-> numNodes2, levelBounds |-> bounds2]

\* new FlatBush(numItems): zero-filled arrays, an empty bbox.
FlatBush(numItems) ==
  LET lv == LevelLoop(numItems, numItems, <<numItems * 4>>)
  IN [null |-> FALSE,
      numItems |-> numItems,
      levelBounds |-> lv.levelBounds,
      boxes |-> [i \in 1..(lv.numNodes * 4) |-> 0],
      indices |-> [i \in 1..lv.numNodes |-> 0],
      pos |-> 0,
      minX |-> PInf, minY |-> PInf, maxX |-> NInf, maxY |-> NInf]

\* SpatialIndex.index when the size is not positive.
NullIndex == [null |-> TRUE]

\* new SpatialIndex(size)
SpatialIndex(size) == IF size > 0 THEN FlatBush(size) ELSE NullIndex

\* ------------------------------------------------------------ flatbush: add
\* FlatBush.add: no capacity check; the position counter advances even when
\* the writes fall outside the arrays.
add(ix, minX, minY, maxX, maxY) ==
  LET index == ix.pos \div 4
      b0 == SetAt(ix.boxes, ix.pos, minX)
      b1 == SetAt(b0, ix.pos + 1, minY)
      b2 == SetAt(b1, ix.pos + 2, maxX)
      b3 == SetAt(b2, ix.pos + 3, maxY)
  IN [ix EXCEPT
        !.indices = SetAt(ix.indices, index, index),
        !.boxes = b3,
        !.pos = ix.pos + 4,
        !.minX = IF Lt(minX, ix.minX) THEN minX ELSE ix.minX,
        !.minY = IF Lt(minY, ix.minY) THEN minY ELSE ix.minY,
        !.maxX = IF Gt(maxX, ix.maxX) THEN maxX ELSE ix.maxX,
        !.maxY = IF Gt(maxY, ix.maxY) THEN maxY ELSE ix.maxY]

\* --------------------------------------------------------- flatbush: finish
\* Bit operations of hilbert(), on non-negative integers below 2^31.
RECURSIVE BitAnd(_, _)
BitAnd(a, b) ==
  IF a = 0 \/ b = 0 THEN 0
  ELSE (a % 2) * (b % 2) + 2 * BitAnd(a \div 2, b \div 2)

RECURSIVE BitXor(_, _)
BitXor(a, b) ==
  IF a = 0 THEN b
  ELSE IF b = 0 THEN a
  ELSE ((a + b) % 2) + 2 * BitXor(a \div 2, b \div 2)

BitOr(a, b) == a + b - BitAnd(a, b)
Shr(a, k) == a \div (2 ^ k)
Shl(a, k) == a * (2 ^ k)

\* The interleaving step of hilbert(): spreads the 16 bits of v over the even
\* bit positions.
Spread(v) ==
  LET s8 == BitAnd(BitOr(v, Shl(v, 8)), 16711935)
      s4 == BitAnd(BitOr(s8, Shl(s8, 4)), 252645135)
      s2 == BitAnd(BitOr(s4, Shl(s4, 2)), 858993459)
  IN BitAnd(BitOr(s2, Shl(s2, 1)), 1431655765)

\* hilbert(x, y) for 16-bit x and y.  The program's value is the unsigned 32-bit
\* number 2*i1 + i0; it is kept here as <<i1 + (i0 >> 1), i0 & 1>>, the same
\* number split as <<h >> 1, h & 1>>, and compared by HilbertLt.
hilbert(x, y) ==
  LET a0 == BitXor(x, y)
      b0 == BitXor(65535, a0)
      c0 == BitXor(65535, BitOr(x, y))
      d0 == BitAnd(x, BitXor(y, 65535))
      a1 == BitOr(a0, Shr(b0, 1))
      b1 == BitXor(Shr(a0, 1), a0)
      c1 == BitXor(BitXor(Shr(c0, 1), BitAnd(b0, Shr(d0, 1))), c0)
      d1 == BitXor(BitXor(BitAnd(a0, Shr(c0, 1)), Shr(d0, 1)), d0)
      a2 == BitXor(BitAnd(a1, Shr(a1, 2)), BitAnd(b1, Shr(b1, 2)))
      b2 == BitXor(BitAnd(a1, Shr(b1, 2)), BitAnd(b1, Shr(BitXor(a1, b1), 2)))
      c2 == BitXor(c1, BitXor(BitAnd(a1, Shr(c1, 2)), BitAnd(b1, Shr(d1, 2))))
      d2 == BitXor(d1, BitXor(BitAnd(b1, Shr(c1, 2)), BitAnd(BitXor(a1, b1), Shr(d1, 2))))
      a3 == BitXor(BitAnd(a2, Shr(a2, 4)), BitAnd(b2, Shr(b2, 4)))
      b3 == BitXor(BitAnd(a2, Shr(b2, 4)), BitAnd(b2, Shr(BitXor(a2, b2), 4)))
      c3 == BitXor(c2, BitXor(BitAnd(a2, Shr(c2, 4)), BitAnd(b2, Shr(d2, 4))))
      d3 == BitXor(d2, BitXor(BitAnd(b2, Shr(c2, 4)), BitAnd(BitXor(a2, b2), Shr(d2, 4))))
      c4 == BitXor(c3, BitXor(BitAnd(a3, Shr(c3, 8)), BitAnd(b3, Shr(d3, 8))))
      d4 == BitXor(d3, BitXor(BitAnd(b3, Shr(c3, 8)), BitAnd(BitXor(a3, b3), Shr(d3, 8))))
      a5 == BitXor(c4, Shr(c4, 1))
      b5 == BitXor(d4, Shr(d4, 1))
      i0 == Spread(BitXor(x, y))
      i1 == Spread(BitOr(b5, BitXor(65535, BitOr(BitXor(x, y), a5))))
  IN <<i1 + Shr(i0, 1), i0 % 2>>

HilbertLt(h, k) == h[1] < k[1] \/ (h[1] = k[1] /\ h[2] < k[2])

\* <<floor(m * a / d), (m * a) % d>> for m, a >= 0 and d > 0, by doubling over
\* the bits of m so that no intermediate value exceeds 3 * d.
RECURSIVE MulDiv(_, _, _)
MulDiv(m, a, d) ==
  IF m = 0 THEN <<0, 0>>
  ELSE LET h == MulDiv(m \div 2, a, d)
           r == 2 * h[2] + (m % 2) * a
       IN <<2 * h[1] + (r \div d), r % d>>

\* Math.floor(hilbertMax * ((lo + hi) / 2 - min) / width) coerced to an integer
\* by the bit operations of hilbert(): 0 for NaN (an empty box has the centre
\* Inf - Inf).  Exact for finite boxes of small magnitude, the only boxes the
\* inputs of more than nodeSize items hold.
HilbertCoord(lo, hi, min, width) ==
  IF IsFinite(lo) /\ IsFinite(hi) /\ IsFinite(min) /\ IsFinite(width)
  THEN MulDiv(65535, lo + hi - 2 * min, 2 * width)[1]
  ELSE 0

\* (this.maxX - this.minX) || 1
Extent(min, max) ==
  LET w == Plus(max, IF min = PInf THEN NInf ELSE IF min = NInf THEN PInf ELSE 0 - min)
  IN IF IsNaN(w) \/ w = 0 THEN 1 ELSE w

\* The items of the sort: the Hilbert value, the box and the index of each
\* leaf; swap() exchanges all three together.
Items(ix) ==
  LET width == Extent(ix.minX, ix.maxX)
      height == Extent(ix.minY, ix.maxY)
  IN [i \in 1..ix.numItems |->
        LET p == 4 * (i - 1)
            b == <<At(ix.boxes, p), At(ix.boxes, p + 1), At(ix.boxes, p + 2), At(ix.boxes, p + 3)>>
        IN [h |-> hilbert(HilbertCoord(b[1], b[3], ix.minX, width),
                          HilbertCoord(b[2], b[4], ix.minY, height)),
            box |-> b,
            index |-> At(ix.indices, i - 1)]]

\* swap() exchanging the Hilbert values and the boxes but not the indices.
swapKeepingIndices(items, i, j) ==
  [items EXCEPT ![i + 1] = [items[j + 1] EXCEPT !.index = items[i + 1].index],
                ![j + 1] = [items[i + 1] EXCEPT !.index = items[j + 1].index]]

swap(items, i, j) == [items EXCEPT ![i + 1] = items[j + 1], ![j + 1] = items[i + 1]]

RECURSIVE ScanUp(_, _, _)
ScanUp(items, i, pivot) ==
  IF HilbertLt(items[i + 1].h, pivot) THEN ScanUp(items, i + 1, pivot) ELSE i

RECURSIVE ScanDown(_, _, _)
ScanDown(items, j, pivot) ==
  IF HilbertLt(pivot, items[j + 1].h) THEN ScanDown(items, j - 1, pivot) ELSE j

\* The while (true) of sort(): <<items, j>> when i >= j.
RECURSIVE Partition(_, _, _, _)
Partition(items, i, j, pivot) ==
  LET i2 == ScanUp(items, i + 1, pivot)
      j2 == ScanDown(items, j - 1, pivot)
  IN IF Computed(items) /\ i2 >= j2 THEN <<items, j2>>
     ELSE Partition(swap(items, i2, j2), i2, j2, pivot)

\* Math.max of two Hilbert values.
HilbertMax(h, k) == IF HilbertLt(h, k) THEN k ELSE h

\* The pivot of sort(): the median of values[left], values[(left + right) >> 1]
\* and values[right], as the branches of the library compute it.
MedianOfThree(start, mid, end) ==
  LET x == HilbertMax(start, mid)
  IN IF HilbertLt(x, end) THEN x
     ELSE IF x = start THEN HilbertMax(mid, end)
     ELSE IF x = mid THEN HilbertMax(start, end)
     ELSE end

\* sort(values, boxes, indices, left, right, nodeSize): a quicksort that stops
\* once left and right fall into the same node.
RECURSIVE sort(_, _, _)
sort(items, left, right) ==
  IF Computed(items) /\ (left \div nodeSize) >= (right \div nodeSize) THEN items
  ELSE LET pivot == MedianOfThree(items[left + 1].h,
                                  items[((left + right) \div 2) + 1].h,
                                  items[right + 1].h)
           part == Partition(items, left - 1, right + 1, pivot)
           lower == sort(part[1], left, part[2])
       IN sort(lower, part[2] + 1, right)

\* The sorted leaves written back into the arrays.
Sorted(ix) ==
  LET items == sort(Items(ix), 0, ix.numItems - 1)
  IN [ix EXCEPT
        !.boxes = [k \in 1..Len(ix.boxes) |->
                     IF k <= 4 * ix.numItems
                     THEN items[((k - 1) \div 4) + 1].box[((k - 1) % 4) + 1]
                     ELSE ix.boxes[k]],
        !.indices = [k \in 1..Len(ix.indices) |->
                     IF k <= ix.numItems THEN items[k].index ELSE ix.indices[k]]]

\* The box of a new node taken from its first child alone.
NodeBoxFirstChild(boxes, pos, stop, acc) == acc

\* The box of one new node: the fold of Math.min / Math.max over the children
\* from pos up to stop.
RECURSIVE NodeBox(_, _, _, _)
NodeBox(boxes, pos, stop, acc) ==
  IF pos >= stop THEN acc
  ELSE NodeBox(boxes, pos + 4, stop,
               <<MathMin(acc[1], At(boxes, pos)), MathMin(acc[2], At(boxes, pos + 1)),
                 MathMax(acc[3], At(boxes, pos + 2)), MathMax(acc[4], At(boxes, pos + 3))>>)

\* The nested loops of finish(): level i (1-based here) ends at levelBounds[i];
\* a parent is appended at ix.pos for every run of nodeSize boxes from pos on.
RECURSIVE Generate(_, _, _)
Generate(ix, i, pos) ==
  IF i > Len(ix.levelBounds) - 1 THEN ix
  ELSE LET end == ix.levelBounds[i]
       IN IF pos >= end THEN Generate(ix, i + 1, pos)
          ELSE LET stop == IntMin(pos + nodeSize * 4, end)
                   first == <<At(ix.boxes, pos), At(ix.boxes, pos + 1),
                              At(ix.boxes, pos + 2), At(ix.boxes, pos + 3)>>
                   nb == NodeBox(ix.boxes, pos + 4, stop, first)
                   b0 == SetAt(ix.boxes, ix.pos, nb[1])
                   b1 == SetAt(b0, ix.pos + 1, nb[2])
                   b2 == SetAt(b1, ix.pos + 2, nb[3])
                   b3 == SetAt(b2, ix.pos + 3, nb[4])
               IN Generate([ix EXCEPT !.indices = SetAt(ix.indices, ix.pos \div 4, pos),
                                      !.boxes = b3,
                                      !.pos = ix.pos + 4],
                           i, stop)

\* FlatBush.finish that accepts an index with boxes still missing.
finish_throws_beyond(ix) == (ix.pos \div 4) > ix.numItems

\* FlatBush.finish throws unless exactly numItems boxes were added.
finish_throws(ix) == (ix.pos \div 4) # ix.numItems

\* FlatBush.finish when it does not throw: a single node gets the bbox as its
\* root box; more than nodeSize items are sorted and the levels generated.
finish(ix) ==
  IF ix.numItems <= nodeSize
  THEN LET b0 == SetAt(ix.boxes, ix.pos, ix.minX)
           b1 == SetAt(b0, ix.pos + 1, ix.minY)
           b2 == SetAt(b1, ix.pos + 2, ix.maxX)
           b3 == SetAt(b2, ix.pos + 3, ix.maxY)
       IN [ix EXCEPT !.boxes = b3, !.pos = ix.pos + 4]
  ELSE Generate(Sorted(ix), 1, 0)

\* ------------------------------------------------------ _FlatBush: queries
\* upperBound(value, arr): binary search for the first element above value.
RECURSIVE UpperLoop(_, _, _, _)
UpperLoop(value, arr, i, j) ==
  IF i < j
  THEN LET m == (i + j) \div 2
       IN IF Gt(At(arr, m), value) THEN UpperLoop(value, arr, i, m)
          ELSE UpperLoop(value, arr, m + 1, j)
  ELSE At(arr, i)

upperBound(value, arr) == UpperLoop(value, arr, 0, Len(arr) - 1)

\* The box read at flat offset pos.
BoxAt(ix, pos) ==
  <<At(ix.boxes, pos), At(ix.boxes, pos + 1), At(ix.boxes, pos + 2), At(ix.boxes, pos + 3)>>

\* Disjoint with <= for <: a box that only touches the query is skipped.
DisjointTouching(q, b) == Le(q[3], b[1]) \/ Lt(q[4], b[2]) \/ Gt(q[1], b[3]) \/ Gt(q[2], b[4])

\* The test that skips a child: q = <<minX, minY, maxX, maxY>>, b the child box.
Disjoint(q, b) == Lt(q[3], b[1]) \/ Lt(q[4], b[2]) \/ Gt(q[1], b[3]) \/ Gt(q[2], b[4])

\* The test that takes the short cut: the query holds the whole child box.
Contains(q, b) == Le(q[1], b[1]) /\ Le(q[2], b[2]) /\ Ge(q[3], b[3]) /\ Ge(q[4], b[4])

\* The end of a node without the cap at the end of its level.
NodeEndUncapped(ix, nodeIndex) == nodeIndex + nodeSize * 4

\* The end of the children of the node that starts at nodeIndex.
NodeEnd(ix, nodeIndex) ==
  IntMin(nodeIndex + nodeSize * 4, upperBound(nodeIndex, ix.levelBounds))

\* "depth search while not leaf": <<pos_start, pos_end>> at the leaf level.
RECURSIVE Descend(_, _, _)
Descend(ix, pos_start, pos_end) ==
  IF pos_start >= ix.numItems * 4
  THEN LET pos_end_start == OrZero(At(ix.indices, pos_end \div 4))
       IN Descend(ix, OrZero(At(ix.indices, pos_start \div 4)),
                  NodeEnd(ix, pos_end_start) - 4)
  ELSE <<pos_start, pos_end>>

\* The pairs <<pos_start, pos_end>> the depth search goes through, the last
\* one at the leaf level.
RECURSIVE DescendTrace(_, _, _, _)
DescendTrace(ix, pos_start, pos_end, trace) ==
  IF pos_start >= ix.numItems * 4
  THEN LET pos_end_start == OrZero(At(ix.indices, pos_end \div 4))
           start == OrZero(At(ix.indices, pos_start \div 4))
           stop == NodeEnd(ix, pos_end_start) - 4
       IN DescendTrace(ix, start, stop, Append(trace, <<start, stop>>))
  ELSE trace

\* EmitRange stopping one leaf early (leaf_pos < pos_end).
RECURSIVE EmitRangeShort(_, _, _, _)
EmitRangeShort(ix, leaf_pos, pos_end, out) ==
  IF Computed(out) /\ leaf_pos < pos_end
  THEN EmitRangeShort(ix, leaf_pos + 4, pos_end,
                      Append(out, [index |-> At(ix.indices, leaf_pos \div 4),
                                   node |-> BoxAt(ix, leaf_pos)]))
  ELSE out

\* EmitRange reporting the leaf's position in the tree instead of the entry
\* of _indices.
RECURSIVE EmitRangeByPosition(_, _, _, _)
EmitRangeByPosition(ix, leaf_pos, pos_end, out) ==
  IF Computed(out) /\ leaf_pos <= pos_end
  THEN EmitRangeByPosition(ix, leaf_pos + 4, pos_end,
                           Append(out, [index |-> leaf_pos \div 4,
                                        node |-> BoxAt(ix, leaf_pos)]))
  ELSE out

\* The loop over the leaf range of a contained box: every leaf is visited,
\* untested.
RECURSIVE EmitRange(_, _, _, _)
EmitRange(ix, leaf_pos, pos_end, out) ==
  IF Computed(out) /\ leaf_pos <= pos_end
  THEN EmitRange(ix, leaf_pos + 4, pos_end,
                 Append(out, [index |-> At(ix.indices, leaf_pos \div 4),
                              node |-> BoxAt(ix, leaf_pos)]))
  ELSE out

\* The for loop over the children of one node: the work stack and the visits
\* after the children from pos on.
RECURSIVE ChildLoop(_, _, _, _, _, _, _)
ChildLoop(ix, q, nodeIndex, pos, end, queue, out) ==
  IF Computed(queue) /\ Computed(out) /\ pos >= end THEN [queue |-> queue, out |-> out]
  ELSE LET b == BoxAt(ix, pos)
       IN IF Disjoint(q, b)
          THEN ChildLoop(ix, q, nodeIndex, pos + 4, end, queue, out)
          ELSE IF Contains(q, b)
          THEN LET range == Descend(ix, pos, pos)
               IN ChildLoop(ix, q, nodeIndex, pos + 4, end, queue,
                            EmitRange(ix, range[1], range[2], out))
          ELSE LET index == OrZero(At(ix.indices, pos \div 4))
               IN IF nodeIndex < ix.numItems * 4
                  THEN ChildLoop(ix, q, nodeIndex, pos + 4, end, queue,
                                 Append(out, [index |-> index, node |-> b]))
                  ELSE ChildLoop(ix, q, nodeIndex, pos + 4, end,
                                 Append(queue, index), out)

\* The pass without the `continue` that ends the containment branch: the
\* child whose leaves were visited is then visited, or pushed, as well.
ChildStepNoContinue(ix, q, nodeIndex, pos, queue, out) ==
  LET b == BoxAt(ix, pos)
      index == OrZero(At(ix.indices, pos \div 4))
      range == Descend(ix, pos, pos)
      out2 == IF Contains(q, b) THEN EmitRange(ix, range[1], range[2], out) ELSE out
  IN IF Disjoint(q, b) THEN [queue |-> queue, out |-> out]
     ELSE IF nodeIndex < ix.numItems * 4
     THEN [queue |-> queue, out |-> Append(out2, [index |-> index, node |-> b])]
     ELSE [queue |-> Append(queue, index), out |-> out2]

\* The pass pushing a node that is neither disjoint nor contained twice.
ChildStepPushTwice(ix, q, nodeIndex, pos, queue, out) ==
  LET b == BoxAt(ix, pos)
  IN IF Disjoint(q, b) THEN [queue |-> queue, out |-> out]
     ELSE IF Contains(q, b)
     THEN LET range == Descend(ix, pos, pos)
          IN [queue |-> queue, out |-> EmitRange(ix, range[1], range[2], out)]
     ELSE LET index == OrZero(At(ix.indices, pos \div 4))
          IN IF nodeIndex < ix.numItems * 4
             THEN [queue |-> queue, out |-> Append(out, [index |-> index, node |-> b])]
             ELSE [queue |-> Append(Append(queue, index), index), out |-> out]

\* The pass pushing the offset of the node itself, not the start of its
\* children.
ChildStepPushPos(ix, q, nodeIndex, pos, queue, out) ==
  LET b == BoxAt(ix, pos)
  IN IF Disjoint(q, b) THEN [queue |-> queue, out |-> out]
     ELSE IF Contains(q, b)
     THEN LET range == Descend(ix, pos, pos)
          IN [queue |-> queue, out |-> EmitRange(ix, range[1], range[2], out)]
     ELSE LET index == OrZero(At(ix.indices, pos \div 4))
          IN IF nodeIndex < ix.numItems * 4
             THEN [queue |-> queue, out |-> Append(out, [index |-> index, node |-> b])]
             ELSE [queue |-> Append(queue, pos), out |-> out]

\* One pass of the body of the for loop, for the child at pos: the work stack
\* and the visits after it.
ChildStep(ix, q, nodeIndex, pos, queue, out) ==
  LET b == BoxAt(ix, pos)
  IN IF Disjoint(q, b) THEN [queue |-> queue, out |-> out]
     ELSE IF Contains(q, b)
     THEN LET range == Descend(ix, pos, pos)
          IN [queue |-> queue, out |-> EmitRange(ix, range[1], range[2], out)]
     ELSE LET index == OrZero(At(ix.indices, pos \div 4))
          IN IF nodeIndex < ix.numItems * 4
             THEN [queue |-> queue, out |-> Append(out, [index |-> index, node |-> b])]
             ELSE [queue |-> Append(queue, index), out |-> out]

\* The while loop over the work stack (queue.pop() takes the last element).
RECURSIVE NodeLoop(_, _, _, _, _)
NodeLoop(ix, q, nodeIndex, queue, out) ==
  LET r == ChildLoop(ix, q, nodeIndex, nodeIndex, NodeEnd(ix, nodeIndex), queue, out)
  IN IF Len(r.queue) = 0 THEN r.out
     ELSE NodeLoop(ix, q, r.queue[Len(r.queue)], SubSeq(r.queue, 1, Len(r.queue) - 1), r.out)

\* search_apply throws unless the position counter is at the end of the boxes.
search_throws(ix) == ix.pos # Len(ix.boxes)

\* search_apply when it does not throw: the calls of nodeFunction, in order.
search_apply(ix, q) == NodeLoop(ix, q, Len(ix.boxes) - 4, <<>>, <<>>)

\* search_indices: the bits set in the result.
search_indices(ix, q) ==
  LET visits == search_apply(ix, q)
  IN {visits[k].index : k \in 1..Len(visits)}

\* The callback without the tests against the query: every visited box counts.
BoundsStepUnfiltered(q, result, node) ==
  <<IF Lt(node[1], result[1]) THEN node[1] ELSE result[1],
    IF Lt(node[2], result[2]) THEN node[2] ELSE result[2],
    IF Gt(node[3], result[3]) THEN node[3] ELSE result[3],
    IF Gt(node[4], result[4]) THEN node[4] ELSE result[4]>>

\* The callback replacing an edge of the aggregate by a visited edge that lies
\* on the other side of it (a larger x0 or y0, a smaller x1 or y1).
BoundsStepLarger(q, result, node) ==
  <<IF Ge(node[1], q[1]) /\ Gt(node[1], result[1]) THEN node[1] ELSE result[1],
    IF Ge(node[2], q[2]) /\ Gt(node[2], result[2]) THEN node[2] ELSE result[2],
    IF Le(node[3], q[3]) /\ Lt(node[3], result[3]) THEN node[3] ELSE result[3],
    IF Le(node[4], q[4]) /\ Lt(node[4], result[4]) THEN node[4] ELSE result[4]>>

\* The callback of search_bounds applied to one visited box.
BoundsStep(q, result, node) ==
  <<IF Ge(node[1], q[1]) /\ Lt(node[1], result[1]) THEN node[1] ELSE result[1],
    IF Ge(node[2], q[2]) /\ Lt(node[2], result[2]) THEN node[2] ELSE result[2],
    IF Le(node[3], q[3]) /\ Gt(node[3], result[3]) THEN node[3] ELSE result[3],
    IF Le(node[4], q[4]) /\ Gt(node[4], result[4]) THEN node[4] ELSE result[4]>>

RECURSIVE BoundsFold(_, _, _, _)
BoundsFold(q, visits, k, result) ==
  IF Computed(result) /\ k > Len(visits) THEN result
  ELSE BoundsFold(q, visits, k + 1, BoundsStep(q, result, visits[k].node))

\* search_bounds: the fold of the callback over the visits, from empty().
search_bounds(ix, q) == BoundsFold(q, search_apply(ix, q), 1, empty)

\* ------------------------------------------------------------ SpatialIndex
\* isFinite(x0 + y0 + x1 + y1)
SumFinite(x0, y0, x1, y1) == IsFinite(Plus(Plus(Plus(x0, y0), x1), y1))

\* add_empty
add_empty(ix) == IF ix.null THEN ix ELSE add(ix, PInf, PInf, NInf, NInf)

\* add_rect
add_rect(ix, x0, y0, x1, y1) ==
  IF ~SumFinite(x0, y0, x1, y1) THEN add_empty(ix)
  ELSE IF ix.null THEN ix ELSE add(ix, x0, y0, x1, y1)

\* add_point
add_point(ix, x, y) ==
  IF ~IsFinite(Plus(x, y)) THEN add_empty(ix)
  ELSE IF ix.null THEN ix ELSE add(ix, x, y, x, y)

\* _normalize without the isFinite guards: any x0 > x1 or y0 > y1 is swapped.
normalizeUnguarded(rect) ==
  LET sx == Gt(rect[1], rect[3])
      sy == Gt(rect[2], rect[4])
  IN <<IF sx THEN rect[3] ELSE rect[1], IF sy THEN rect[4] ELSE rect[2],
       IF sx THEN rect[1] ELSE rect[3], IF sy THEN rect[2] ELSE rect[4]>>

\* _normalize
normalize(rect) ==
  LET sx == Gt(rect[1], rect[3]) /\ IsFinite(Plus(rect[1], rect[3]))
      sy == Gt(rect[2], rect[4]) /\ IsFinite(Plus(rect[2], rect[4]))
  IN <<IF sx THEN rect[3] ELSE rect[1], IF sy THEN rect[4] ELSE rect[2],
       IF sx THEN rect[1] ELSE rect[3], IF sy THEN rect[2] ELSE rect[4]>>

\* get bbox
bbox(ix) == IF ix.null THEN empty ELSE <<ix.minX, ix.minY, ix.maxX, ix.maxY>>

\* A query that dereferences the index unguarded: it throws without an index.
query_throws_unguarded(ix) == ix.null \/ search_throws(ix)

\* indices(rect) and bounds(rect) throw exactly when search_apply does.
query_throws(ix) == ~ix.null /\ search_throws(ix)

\* indices(rect) when it does not throw.
indices(ix, rect) == IF ix.null THEN {} ELSE search_indices(ix, normalize(rect))

\* bounds(rect) when it does not throw.
bounds(ix, rect) == IF ix.null THEN empty ELSE search_bounds(ix, normalize(rect))

\* ------------------------------------------------------------------ inputs
\* Capacities: 0 (no index), the single-node capacities, one multi-level one.
Sizes == (0..MaxSmall) \cup {BigSize}

\* Rectangles given to add_rect on the small indices: corners on 0 and
\* MaxCoord (the whole square, a flat one, one inverted in x, one inverted in
\* y, a side, one reaching Number.MAX_VALUE), and some with a non-finite
\* coordinate.
FiniteRects ==
  {<<0, 0, MaxCoord, MaxCoord>>, <<0, 0, MaxCoord, 0>>, <<MaxCoord, 0, 0, MaxCoord>>,
   <<0, MaxCoord, MaxCoord, 0>>, <<MaxCoord, 0, MaxCoord, MaxCoord>>,
   <<0, 0, MaxValue, MaxValue>>}
NonFiniteRects ==
  {<<NaN, 0, 0, 0>>, <<0, 0, PInf, MaxCoord>>, <<NInf, NInf, PInf, PInf>>}
FinitePoints == {<<0, 0>>, <<MaxCoord, MaxCoord>>, <<MaxValue, MaxValue>>, <<MaxValue, 0>>}
NonFinitePoints == {<<0, NaN>>, <<NInf, 0>>}

\* The k-th add call (0-based) of a multi-level input: a grid of points four
\* wide, with a choice of a point, a rectangle or an empty slot at two places.
BigFree == {5, BigSize - 1}
GridX(k) == k % 4
GridY(k) == k \div 4

\* Calls made beyond the capacity draw from a few inputs only.
RectInputs(n, k) ==
  IF k >= n THEN {<<0, 0, MaxCoord, MaxCoord>>}
  ELSE IF n <= MaxSmall THEN FiniteRects \cup NonFiniteRects
  ELSE IF k \in BigFree THEN {<<GridX(k), GridY(k), GridX(k) + 1, GridY(k) + 1>>}
  ELSE {}

PointInputs(n, k) ==
  IF k >= n THEN {<<MaxCoord, MaxCoord>>}
  ELSE IF n <= MaxSmall THEN FinitePoints \cup NonFinitePoints
  ELSE {<<GridX(k), GridY(k)>>}

EmptyAllowed(n, k) == k >= n \/ n <= MaxSmall \/ k \in BigFree

\* Query rectangles of the small indices: one axis ranges over the pairs of
\* QPairs while the other takes a pair of QCore.
QVals == (0..MaxCoord) \cup {NInf, PInf}
QPairs == (QVals \X QVals) \cup {<<NaN, 0>>, <<0, NaN>>}
QCore == {<<NInf, PInf>>, <<0, MaxCoord>>, <<0, 0>>}
SmallQueries ==
  {<<px[1], py[1], px[2], py[2]>> : px \in QPairs, py \in QCore}
  \cup {<<px[1], py[1], px[2], py[2]>> : px \in QCore, py \in QPairs}
  \cup {<<NaN, 0, MaxCoord, MaxCoord>>, <<0, 0, MaxCoord, NaN>>}
  \cup {<<MaxValue, 0, NearMax, MaxCoord>>, <<NearMax, 0, MaxValue, MaxCoord>>,
        <<0, 0, MaxValue, MaxValue>>}

\* Query rectangles of the multi-level indices: windows on the grid, half
\* planes, inverted windows.
BigQueries ==
  {<<x0, y0, x1, y1>> : x0 \in {NInf, 1, 3}, y0 \in {NInf, 0, 2},
                        x1 \in {1, 3, PInf}, y1 \in {0, 2, PInf}}
  \cup {full, empty, <<NaN, 0, 3, 2>>, <<1, 0, 3, NaN>>}

\* The queries the query actions are called with.
QueryInputs == {full, empty, <<MaxCoord, 0, 0, MaxCoord>>}

\* ------------------------------------------------------------------- state
VARIABLES
  size,    \* the argument of new SpatialIndex(size)
  index,   \* SpatialIndex.index: NullIndex or the FlatBush
  rows,    \* history: the box each add call stored, in call order
  given,   \* history: the box each add call was given if all its coordinates
           \* are finite, the canonical empty box otherwise, in call order
  ret,     \* the last call made and what it returned
  sealed,  \* history: whether finish() was called, whether a call returned, and
           \* the index as the first call that returned left it
  first,   \* history (SpecAgain): the first query made on the finished index
           \* with its result, whether another query followed it, and whether
           \* it was made again
  trav,    \* SpecTraverse: for each running search_apply call its arguments,
           \* its local variables (nodeIndex, pos, end, queue) and the calls
           \* of nodeFunction it has made
  hist     \* history (SpecSearch): every value the running search_apply call
           \* has pushed on its work stack, and every leaf range it has
           \* visited untested, with the position of the box the query holds

\* The variables the calls of Spec leave alone.
aux == <<first, trav, hist>>

vars == <<size, index, rows, given, ret, sealed, aux>>

Ret(op, arg, threw, idx, rect) ==
  [op |-> op, arg |-> arg, threw |-> threw, idx |-> idx, rect |-> rect]

\* The box add_rect, and the box add_point, hand to FlatBush.add.
StoredRect(x0, y0, x1, y1) == IF SumFinite(x0, y0, x1, y1) THEN <<x0, y0, x1, y1>> ELSE empty

StoredPoint(x, y) == IF IsFinite(Plus(x, y)) THEN <<x, y, x, y>> ELSE empty

\* The item of an add call as its caller sees it: the rectangle when each of
\* its coordinates is finite, an empty item otherwise.
GivenRect(x0, y0, x1, y1) ==
  IF IsFinite(x0) /\ IsFinite(y0) /\ IsFinite(x1) /\ IsFinite(y1)
  THEN <<x0, y0, x1, y1>> ELSE empty

Traversals == 1..NumTraversals
Idle == [phase |-> "idle", q |-> <<>>, nodeIndex |-> 0, pos |-> 0, end |-> 0,
         queue |-> <<>>, out |-> <<>>]

NoSearch == [pushed |-> <<>>, short |-> <<>>]

NoQuery ==
  [op |-> "none", arg |-> <<>>, idx |-> {}, rect |-> empty, between |-> FALSE, again |-> FALSE]

Init ==
  /\ size \in Sizes
  /\ index = SpatialIndex(size)
  /\ rows = <<>>
  /\ given = <<>>
  /\ ret = Ret("new", <<>>, FALSE, {}, empty)
  /\ sealed = [called |-> FALSE, done |-> FALSE, index |-> NullIndex]
  /\ first = NoQuery
  /\ trav = [t \in Traversals |-> Idle]
  /\ hist = NoSearch

MayAdd == Len(rows) < size + ExtraAdds

AddRect ==
  /\ MayAdd
  /\ \E r \in RectInputs(size, Len(rows)) :
       /\ index' = add_rect(index, r[1], r[2], r[3], r[4])
       /\ rows' = Append(rows, StoredRect(r[1], r[2], r[3], r[4]))
       /\ given' = Append(given, GivenRect(r[1], r[2], r[3], r[4]))
       /\ ret' = Ret("add_rect", r, FALSE, {}, empty)
  /\ UNCHANGED <<size, sealed, aux>>

AddPoint ==
  /\ MayAdd
  /\ \E p \in PointInputs(size, Len(rows)) :
       /\ index' = add_point(index, p[1], p[2])
       /\ rows' = Append(rows, StoredPoint(p[1], p[2]))
       /\ given' = Append(given, GivenRect(p[1], p[2], p[1], p[2]))
       /\ ret' = Ret("add_point", p, FALSE, {}, empty)
  /\ UNCHANGED <<size, sealed, aux>>

AddEmpty ==
  /\ MayAdd
  /\ EmptyAllowed(size, Len(rows))
  /\ index' = add_empty(index)
  /\ rows' = Append(rows, empty)
  /\ given' = Append(given, empty)
  /\ ret' = Ret("add_empty", <<>>, FALSE, {}, empty)
  /\ UNCHANGED <<size, sealed, aux>>

Finish ==
  /\ IF index.null
     THEN /\ ret' = Ret("finish", <<>>, FALSE, {}, empty)
          /\ sealed' = [sealed EXCEPT !.called = TRUE]
          /\ UNCHANGED index
     ELSE IF finish_throws(index)
     THEN /\ ret' = Ret("finish", <<>>, TRUE, {}, empty)
          /\ sealed' = [sealed EXCEPT !.called = TRUE]
          /\ UNCHANGED index
     ELSE /\ index' = finish(index)
          /\ ret' = Ret("finish", <<>>, FALSE, {}, empty)
          /\ sealed' = IF sealed.done THEN sealed
                       ELSE [called |-> TRUE, done |-> TRUE, index |-> index']
  /\ UNCHANGED <<size, rows, given, aux>>

Indices ==
  /\ \E q \in QueryInputs :
       ret' = IF query_throws(index) THEN Ret("indices", q, TRUE, {}, empty)
              ELSE Ret("indices", q, FALSE, indices(index, q), empty)
  /\ UNCHANGED <<size, index, rows, given, sealed, aux>>

Bounds ==
  /\ \E q \in QueryInputs :
       ret' = IF query_throws(index) THEN Ret("bounds", q, TRUE, {}, empty)
              ELSE Ret("bounds", q, FALSE, {}, bounds(index, q))
  /\ UNCHANGED <<size, index, rows, given, sealed, aux>>

Bbox ==
  /\ ret' = Ret("bbox", <<>>, FALSE, {}, bbox(index))
  /\ UNCHANGED <<size, index, rows, given, sealed, aux>>

Next == AddRect \/ AddPoint \/ AddEmpty \/ Finish \/ Indices \/ Bounds \/ Bbox

Spec == Init /\ [][Next]_vars

\* finish() has returned and no add call was made since: the index is as the
\* first returning finish() left it.
Finished == sealed.done /\ index = sealed.index

\* ------------------------------------------------------- repeated queries
\* What a query on the finished index leaves in `first`.
Recorded(r) ==
  IF ~Finished \/ r.threw THEN first
  ELSE IF first.op = "none"
  THEN [op |-> r.op, arg |-> r.arg, idx |-> r.idx, rect |-> r.rect,
        between |-> FALSE, again |-> FALSE]
  ELSE IF first.op = r.op /\ first.arg = r.arg THEN [first EXCEPT !.again = TRUE]
  ELSE [first EXCEPT !.between = TRUE]


\* --------------------------------------------------- concurrent traversals
\* SpecTraverse starts from finished indices: a single-node one and the
\* multi-level one, filled with the grid (a point per call, an empty slot at
\* call 5) and finished.
TraverseSizes == {MaxSmall, BigSize}
RECURSIVE Fill(_, _)
Fill(ix, k) ==
  IF Computed(ix) /\ k >= ix.numItems THEN ix
  ELSE Fill(IF k = 5 THEN add_empty(ix) ELSE add_point(ix, GridX(k), GridY(k)), k + 1)
FillRows(n) ==
  [k \in 1..n |-> IF k - 1 = 5 THEN empty
                  ELSE <<GridX(k - 1), GridY(k - 1), GridX(k - 1), GridY(k - 1)>>]

\* The arguments of the concurrent search_apply calls: everything, a window
\* that cuts through the grid, a half plane.
TraverseQueries == {full, <<1, 0, 3, 2>>, <<NInf, NInf, 1, PInf>>}

TraverseInit ==
  /\ size \in TraverseSizes
  /\ index = finish(Fill(SpatialIndex(size), 0))
  /\ rows = FillRows(size)
  /\ given = FillRows(size)
  /\ ret = Ret("finish", <<>>, FALSE, {}, empty)
  /\ sealed = [called |-> TRUE, done |-> TRUE, index |-> index]
  /\ first = NoQuery
  /\ trav = [t \in Traversals |-> Idle]
  /\ hist = NoSearch

\* search_apply is entered: the check of _pos, the first nodeIndex and its end.
TraverseStart(t) ==
  /\ trav[t].phase = "idle"
  /\ ~search_throws(index)
  /\ \E q \in TraverseQueries :
       trav' = [trav EXCEPT ![t] =
                  [phase |-> "run", q |-> q, nodeIndex |-> Len(index.boxes) - 4,
                   pos |-> Len(index.boxes) - 4,
                   end |-> NodeEnd(index, Len(index.boxes) - 4),
                   queue |-> <<>>, out |-> <<>>]]
  /\ UNCHANGED <<size, index, rows, given, ret, sealed, first, hist>>

\* One pass of the for loop of traversal t.
TraverseChild(t) ==
  /\ trav[t].phase = "run"
  /\ trav[t].pos < trav[t].end
  /\ LET r == ChildStep(index, trav[t].q, trav[t].nodeIndex, trav[t].pos,
                        trav[t].queue, trav[t].out)
     IN trav' = [trav EXCEPT ![t].pos = @ + 4, ![t].queue = r.queue, ![t].out = r.out]
  /\ UNCHANGED <<size, index, rows, given, ret, sealed, first, hist>>

\* queue.pop() taking from one work stack shared by all traversals (that of
\* traversal 1).
TraversePopShared(t) ==
  /\ trav[t].phase = "run"
  /\ trav[t].pos >= trav[t].end
  /\ LET queue == trav[1].queue
     IN IF Len(queue) = 0
        THEN trav' = [trav EXCEPT ![t].phase = "done"]
        ELSE trav' = [trav EXCEPT ![1].queue = SubSeq(queue, 1, Len(queue) - 1),
                                  ![t].nodeIndex = queue[Len(queue)],
                                  ![t].pos = queue[Len(queue)],
                                  ![t].end = NodeEnd(index, queue[Len(queue)])]
  /\ UNCHANGED <<size, index, rows, given, ret, sealed, first, hist>>

\* The for loop of traversal t is over: nodeIndex = queue.pop(), and the
\* traversal returns when the work stack was empty.
TraversePop(t) ==
  /\ trav[t].phase = "run"
  /\ trav[t].pos >= trav[t].end
  /\ LET queue == trav[t].queue
     IN IF Len(queue) = 0
        THEN trav' = [trav EXCEPT ![t].phase = "done"]
        ELSE trav' = [trav EXCEPT ![t].queue = SubSeq(queue, 1, Len(queue) - 1),
                                  ![t].nodeIndex = queue[Len(queue)],
                                  ![t].pos = queue[Len(queue)],
                                  ![t].end = NodeEnd(index, queue[Len(queue)])]
  /\ UNCHANGED <<size, index, rows, given, ret, sealed, first, hist>>

TraverseNext ==
  \E t \in Traversals : TraverseStart(t) \/ TraverseChild(t) \/ TraversePop(t)

SpecTraverse == TraverseInit /\ [][TraverseNext]_vars

\* ------------------------------------------------------ the test fixtures
\* The two indices of test/unit/core/util/spatial.ts.  Their coordinates are
\* multiples of 0.0001 and are kept in units of 0.00005, so that
\* Number.MIN_VALUE, the x0 of bbox.positive_x(), has a code of its own below
\* every positive coordinate; the y coordinates of the rectangles are kept in
\* units of 1 (the program compares an x with an x and a y with a y only, and
\* of the sum x0 + y0 + x1 + y1 it tests the finiteness).
RectSetSize == 6
PointSetSize == 45
MinValue == 1
E4 == 2
One == 20000
TenOne == 202000
Eleven == 220000

\* The add_rect calls of "SpatialIndex from add_rect", in order.
RectSet ==
  <<<<0, 1, One, 2>>, <<E4, 1, One, 2>>, <<0, 100, One, 200>>,
    <<E4, -100, One, 200>>, <<0, 10, One, 20>>, <<-E4, 10, One, 20>>>>

\* The ten add_point calls of one quadrant, sx and sy the signs of x and y.
Quadrant(sx, sy) ==
  <<<<sx * E4, sy * E4>>, <<sx * One, sy * E4>>, <<sx * TenOne, sy * E4>>,
    <<sx * E4, sy * One>>, <<sx * One, sy * One>>, <<sx * TenOne, sy * One>>,
    <<sx * E4, sy * TenOne>>, <<sx * One, sy * TenOne>>, <<sx * TenOne, sy * TenOne>>,
    <<sx * Eleven, sy * Eleven>>>>

\* The add_point calls of "SpatialIndex from add_point", in order.
PointSet ==
  <<<<0, 0>>, <<E4, 0>>, <<-E4, 0>>, <<0, E4>>, <<0, -E4>>>>
  \o Quadrant(1, 1) \o Quadrant(1, -1) \o Quadrant(-1, 1) \o Quadrant(-1, -1)

\* bbox.positive_x(), bbox.negative_x(), bbox.positive_y(), bbox.negative_y()
positive_x == <<MinValue, NInf, PInf, PInf>>
negative_x == <<NInf, NInf, -MinValue, PInf>>
positive_y == <<NInf, MinValue, PInf, PInf>>
negative_y == <<NInf, NInf, PInf, -MinValue>>

\* The rectangles the tests query the two indices with.
FixtureQueries == {full, empty, positive_x, negative_x, positive_y, negative_y}

FixtureSizes == {RectSetSize, PointSetSize}

FixtureInit ==
  /\ size \in FixtureSizes
  /\ index = SpatialIndex(size)
  /\ rows = <<>>
  /\ given = <<>>
  /\ ret = Ret("new", <<>>, FALSE, {}, empty)
  /\ sealed = [called |-> FALSE, done |-> FALSE, index |-> NullIndex]
  /\ first = NoQuery
  /\ trav = [t \in Traversals |-> Idle]
  /\ hist = NoSearch

\* The next add_rect call of the rectangle test.
FixtureAddRect ==
  /\ size = RectSetSize
  /\ ~sealed.called
  /\ Len(rows) < RectSetSize
  /\ LET r == RectSet[Len(rows) + 1]
     IN /\ index' = add_rect(index, r[1], r[2], r[3], r[4])
        /\ rows' = Append(rows, StoredRect(r[1], r[2], r[3], r[4]))
        /\ given' = Append(given, GivenRect(r[1], r[2], r[3], r[4]))
        /\ ret' = Ret("add_rect", r, FALSE, {}, empty)
  /\ UNCHANGED <<size, sealed, aux>>

\* The next add_point call of the point test.
FixtureAddPoint ==
  /\ size = PointSetSize
  /\ ~sealed.called
  /\ Len(rows) < PointSetSize
  /\ LET p == PointSet[Len(rows) + 1]
     IN /\ index' = add_point(index, p[1], p[2])
        /\ rows' = Append(rows, StoredPoint(p[1], p[2]))
        /\ given' = Append(given, GivenRect(p[1], p[2], p[1], p[2]))
        /\ ret' = Ret("add_point", p, FALSE, {}, empty)
  /\ UNCHANGED <<size, sealed, aux>>

\* index.finish() once all the add calls of the test are made.
FixtureFinish == Len(rows) = size /\ Finish

FixtureIndices ==
  /\ \E q \in FixtureQueries :
       ret' = IF query_throws(index) THEN Ret("indices", q, TRUE, {}, empty)
              ELSE Ret("indices", q, FALSE, indices(index, q), empty)
  /\ UNCHANGED <<size, index, rows, given, sealed, aux>>

FixtureBounds ==
  /\ \E q \in FixtureQueries :
       ret' = IF query_throws(index) THEN Ret("bounds", q, TRUE, {}, empty)
              ELSE Ret("bounds", q, FALSE, {}, bounds(index, q))
  /\ UNCHANGED <<size, index, rows, given, sealed, aux>>

FixtureNext ==
  FixtureAddRect \/ FixtureAddPoint \/ FixtureFinish \/ FixtureIndices \/ FixtureBounds

SpecFixture == FixtureInit /\ [][FixtureNext]_vars

\* ------------------------------------------------- one traversal, by steps
\* SpecSearch runs one bounds(rect) call pass by pass on finished indices: a
\* grid of SearchSize points in which call 2 may give an inverted rectangle
\* and calls 3 and 9 may be add_empty(), some indices of one or two boxes, and
\* the index of the point test.
SearchSize == BigSize + 1
SearchGrid(n, inverted, empties) ==
  [k \in 1..n |->
     IF (k - 1) \in empties THEN empty
     ELSE IF k - 1 = 2 /\ inverted
     THEN <<GridX(k - 1) + 1, GridY(k - 1), GridX(k - 1), GridY(k - 1) + 1>>
     ELSE <<GridX(k - 1), GridY(k - 1), GridX(k - 1), GridY(k - 1)>>]

PointBoxes == [k \in 1..PointSetSize |->
                 <<PointSet[k][1], PointSet[k][2], PointSet[k][1], PointSet[k][2]>>]

\* The boxes given to the add calls, in order; empty stands for add_empty().
SearchInputs ==
  {SearchGrid(SearchSize, i, e) : i \in BOOLEAN, e \in {{}, {3}, {3, 9}}}
  \cup {<<<<0, 0, 0, 0>>, empty>>, <<<<0, 0, 0, 0>>, <<MaxCoord, 0, 0, MaxCoord>>>>,
         <<empty>>, <<<<0, 0, MaxCoord, MaxCoord>>>>}
  \cup {PointBoxes}

\* The add calls for boxes k, k + 1, ... made on ix.
RECURSIVE FillWith(_, _, _)
FillWith(ix, boxes, k) ==
  IF Computed(ix) /\ k > Len(boxes) THEN ix
  ELSE FillWith(IF boxes[k] = empty THEN add_empty(ix)
                ELSE add_rect(ix, boxes[k][1], boxes[k][2], boxes[k][3], boxes[k][4]),
                boxes, k + 1)

\* new SpatialIndex(n), the n add calls and finish().
Built(boxes) ==
  LET ix == FillWith(SpatialIndex(Len(boxes)), boxes, 1)
  IN IF ix.null THEN ix ELSE finish(ix)

\* The rectangles of the bounds calls.
SearchQueries ==
  {full, empty, positive_x, <<0, 0, 3, 4>>, <<3, NInf, 3, 1>>, <<0, 0, MaxCoord, MaxCoord>>,
   <<1, 0, 3, 2>>, <<NInf, NInf, 1, PInf>>, <<3, 2, 1, 0>>, <<NaN, 0, 3, 2>>}

SearchInit ==
  /\ given \in SearchInputs
  /\ size = Len(given)
  /\ rows = [k \in 1..Len(given) |->
               StoredRect(given[k][1], given[k][2], given[k][3], given[k][4])]
  /\ index = Built(given)
  /\ ret = Ret("finish", <<>>, FALSE, {}, empty)
  /\ sealed = [called |-> TRUE, done |-> TRUE, index |-> index]
  /\ first = NoQuery
  /\ trav = [t \in Traversals |-> Idle]
  /\ hist = NoSearch

\* bounds(rect) enters search_apply with the normalized rectangle.
SearchStart ==
  /\ trav[1].phase = "idle"
  /\ ~query_throws(index)
  /\ \E r \in SearchQueries :
       /\ trav' = [trav EXCEPT ![1] =
                     [phase |-> "run", q |-> normalize(r),
                      nodeIndex |-> Len(index.boxes) - 4,
                      pos |-> Len(index.boxes) - 4,
                      end |-> NodeEnd(index, Len(index.boxes) - 4),
                      queue |-> <<>>, out |-> <<>>]]
       /\ ret' = Ret("bounds", r, FALSE, {}, empty)
  /\ UNCHANGED <<size, index, rows, given, sealed, first, hist>>

\* One pass of the for loop.
SearchChild ==
  /\ trav[1].phase = "run"
  /\ trav[1].pos < trav[1].end
  /\ LET t == trav[1]
         r == ChildStep(index, t.q, t.nodeIndex, t.pos, t.queue, t.out)
         b == BoxAt(index, t.pos)
     IN /\ trav' = [trav EXCEPT ![1].pos = @ + 4, ![1].queue = r.queue, ![1].out = r.out]
        /\ hist' = [pushed |-> hist.pushed \o SubSeq(r.queue, Len(t.queue) + 1, Len(r.queue)),
                    short |-> IF ~Disjoint(t.q, b) /\ Contains(t.q, b)
                              THEN Append(hist.short,
                                          [pos |-> t.pos, range |-> Descend(index, t.pos, t.pos)])
                              ELSE hist.short]
  /\ UNCHANGED <<size, index, rows, given, ret, sealed, first>>

\* nodeIndex = queue.pop(); with the work stack empty search_apply returns and
\* bounds(rect) returns the aggregate.
SearchPop ==
  /\ trav[1].phase = "run"
  /\ trav[1].pos >= trav[1].end
  /\ LET queue == trav[1].queue
     IN IF Len(queue) = 0
        THEN /\ trav' = [trav EXCEPT ![1].phase = "done"]
             /\ ret' = [ret EXCEPT !.rect = BoundsFold(trav[1].q, trav[1].out, 1, empty)]
        ELSE /\ trav' = [trav EXCEPT ![1].queue = SubSeq(queue, 1, Len(queue) - 1),
                                     ![1].nodeIndex = queue[Len(queue)],
                                     ![1].pos = queue[Len(queue)],
                                     ![1].end = NodeEnd(index, queue[Len(queue)])]
             /\ UNCHANGED ret
  /\ UNCHANGED <<size, index, rows, given, sealed, first, hist>>

SearchNext == SearchStart \/ SearchChild \/ SearchPop

SpecSearch == SearchInit /\ [][SearchNext]_vars

\* ------------------------------------------- search_apply, statement by statement
\* The same call with the inner loop over a leaf range taken one callback at a
\* time: leaf_pos and pos_end are the locals of lines 47-57.
ApplyStart ==
  /\ trav[1].phase = "idle"
  /\ ~query_throws(index)
  /\ \E r \in SearchQueries :
       /\ trav' = [trav EXCEPT ![1] =
                     [phase |-> "run", q |-> normalize(r),
                      nodeIndex |-> Len(index.boxes) - 4,
                      pos |-> Len(index.boxes) - 4,
                      end |-> NodeEnd(index, Len(index.boxes) - 4),
                      queue |-> <<>>, out |-> <<>>, leaf_pos |-> 0, pos_end |-> 0]]
       /\ ret' = Ret("indices", r, FALSE, {}, empty)
  /\ UNCHANGED <<size, index, rows, given, sealed, first, hist>>

\* One pass of the for loop up to its `continue`, its callback or its push; a
\* contained box starts the loop over its leaf range.
ApplyTest ==
  /\ trav[1].phase = "run"
  /\ trav[1].pos < trav[1].end
  /\ LET t == trav[1]
         b == BoxAt(index, t.pos)
     IN IF ~Disjoint(t.q, b) /\ Contains(t.q, b)
        THEN LET range == Descend(index, t.pos, t.pos)
             IN /\ trav' = [trav EXCEPT ![1].phase = "leaves",
                                        ![1].leaf_pos = range[1],
                                        ![1].pos_end = range[2]]
                /\ UNCHANGED hist
        ELSE LET r == ChildStep(index, t.q, t.nodeIndex, t.pos, t.queue, t.out)
             IN /\ trav' = [trav EXCEPT ![1].pos = @ + 4,
                                        ![1].queue = r.queue, ![1].out = r.out]
                /\ hist' = [hist EXCEPT !.pushed =
                              @ \o SubSeq(r.queue, Len(t.queue) + 1, Len(r.queue))]
  /\ UNCHANGED <<size, index, rows, given, ret, sealed, first>>

\* One pass of the loop over the leaf range: the callback on the leaf at leaf_pos.
ApplyLeaf ==
  /\ trav[1].phase = "leaves"
  /\ trav[1].leaf_pos <= trav[1].pos_end
  /\ trav' = [trav EXCEPT ![1].leaf_pos = @ + 4,
                          ![1].out = Append(@, [index |-> At(index.indices, trav[1].leaf_pos \div 4),
                                                node |-> BoxAt(index, trav[1].leaf_pos)])]
  /\ UNCHANGED <<size, index, rows, given, ret, sealed, first, hist>>

\* The `continue` after the loop over the leaf range.
ApplyContinue ==
  /\ trav[1].phase = "leaves"
  /\ trav[1].leaf_pos > trav[1].pos_end
  /\ trav' = [trav EXCEPT ![1].phase = "run", ![1].pos = @ + 4]
  /\ UNCHANGED <<size, index, rows, given, ret, sealed, first, hist>>

\* nodeIndex = queue.pop(); with the work stack empty search_apply returns.
ApplyPop ==
  /\ trav[1].phase = "run"
  /\ trav[1].pos >= trav[1].end
  /\ LET queue == trav[1].queue
     IN IF Len(queue) = 0
        THEN trav' = [trav EXCEPT ![1].phase = "done"]
        ELSE trav' = [trav EXCEPT ![1].queue = SubSeq(queue, 1, Len(queue) - 1),
                                  ![1].nodeIndex = queue[Len(queue)],
                                  ![1].pos = queue[Len(queue)],
                                  ![1].end = NodeEnd(index, queue[Len(queue)])]
  /\ UNCHANGED <<size, index, rows, given, ret, sealed, first, hist>>

ApplyNext == ApplyStart \/ ApplyTest \/ ApplyLeaf \/ ApplyContinue \/ ApplyPop

SpecApply == SearchInit /\ [][ApplyNext]_vars

\* search_apply is synchronous: a call that has started runs to its return.
SpecApplyFair == SpecApply /\ WF_vars(ApplyNext)

\* ------------------------------------------------------- repeated queries
\* SpecAgain makes indices(rect) and bounds(rect) calls one after the other on
\* a finished index, each taken pass by pass.  What a call leaves behind (its
\* work stack, its loop variables, its result object) stays in the state; the
\* next call starts from what the code initializes, and from nothing else.
AgainInputs ==
  {SearchGrid(SearchSize, TRUE, {3}), SearchGrid(SearchSize, FALSE, {}),
   <<<<0, 0, 0, 0>>, empty>>, <<<<0, 0, MaxCoord, MaxCoord>>>>}

AgainQueries == {full, <<1, 0, 3, 2>>, <<NInf, NInf, 1, PInf>>, <<3, 2, 1, 0>>}

\* new Indices(this.numItems) and empty(): the result object a call starts with.
NewResult == [idx |-> {}, rect |-> empty]

AgainIdle ==
  [phase |-> "idle", op |-> "none", arg |-> <<>>, q |-> <<>>, nodeIndex |-> 0, pos |-> 0,
   end |-> 0, queue |-> <<>>, out |-> <<>>, result |-> NewResult]

AgainInit ==
  /\ given \in AgainInputs
  /\ size = Len(given)
  /\ rows = [k \in 1..Len(given) |->
               StoredRect(given[k][1], given[k][2], given[k][3], given[k][4])]
  /\ index = Built(given)
  /\ ret = Ret("finish", <<>>, FALSE, {}, empty)
  /\ sealed = [called |-> TRUE, done |-> TRUE, index |-> index]
  /\ first = NoQuery
  /\ trav = [t \in Traversals |-> AgainIdle]
  /\ hist = NoSearch

\* A call that goes on with the result object of the call before it.
AgainStartSharedResult ==
  /\ trav[1].phase \in {"idle", "done"}
  /\ ~query_throws(index)
  /\ \E op \in {"indices", "bounds"}, r \in AgainQueries :
       trav' = [trav EXCEPT ![1] =
                  [phase |-> "run", op |-> op, arg |-> r, q |-> normalize(r),
                   nodeIndex |-> Len(index.boxes) - 4,
                   pos |-> Len(index.boxes) - 4,
                   end |-> NodeEnd(index, Len(index.boxes) - 4),
                   queue |-> <<>>, out |-> <<>>, result |-> trav[1].result]]
  /\ UNCHANGED <<size, index, rows, given, ret, sealed, first, hist>>

\* indices(rect) or bounds(rect) is entered: _normalize, the new result
\* object, and in search_apply the check of _pos, the first nodeIndex and the
\* empty work stack.
AgainStart ==
  /\ trav[1].phase \in {"idle", "done"}
  /\ ~query_throws(index)
  /\ \E op \in {"indices", "bounds"}, r \in AgainQueries :
       trav' = [trav EXCEPT ![1] =
                  [phase |-> "run", op |-> op, arg |-> r, q |-> normalize(r),
                   nodeIndex |-> Len(index.boxes) - 4,
                   pos |-> Len(index.boxes) - 4,
                   end |-> NodeEnd(index, Len(index.boxes) - 4),
                   queue |-> <<>>, out |-> <<>>, result |-> NewResult]]
  /\ UNCHANGED <<size, index, rows, given, ret, sealed, first, hist>>

\* The callbacks of search_indices and search_bounds on the visits of one
\* pass, applied to the result object.
Callbacks(op, q, visits, result) ==
  IF op = "indices"
  THEN [result EXCEPT !.idx = @ \cup {visits[k].index : k \in 1..Len(visits)}]
  ELSE [result EXCEPT !.rect = BoundsFold(q, visits, 1, @)]

\* One pass of the for loop, with its callbacks.
AgainChild ==
  /\ trav[1].phase = "run"
  /\ trav[1].pos < trav[1].end
  /\ LET t == trav[1]
         r == ChildStep(index, t.q, t.nodeIndex, t.pos, t.queue, t.out)
         visits == SubSeq(r.out, Len(t.out) + 1, Len(r.out))
     IN trav' = [trav EXCEPT ![1].pos = @ + 4, ![1].queue = r.queue, ![1].out = r.out,
                             ![1].result = Callbacks(t.op, t.q, visits, t.result)]
  /\ UNCHANGED <<size, index, rows, given, ret, sealed, first, hist>>

\* nodeIndex = queue.pop(); with the work stack empty search_apply returns and
\* the call returns its result object.
AgainPop ==
  /\ trav[1].phase = "run"
  /\ trav[1].pos >= trav[1].end
  /\ LET t == trav[1]
     IN IF Len(t.queue) = 0
        THEN /\ trav' = [trav EXCEPT ![1].phase = "done"]
             /\ ret' = IF t.op = "indices"
                       THEN Ret(t.op, t.arg, FALSE, t.result.idx, empty)
                       ELSE Ret(t.op, t.arg, FALSE, {}, t.result.rect)
             /\ first' = Recorded(ret')
        ELSE /\ trav' = [trav EXCEPT ![1].queue = SubSeq(t.queue, 1, Len(t.queue) - 1),
                                     ![1].nodeIndex = t.queue[Len(t.queue)],
                                     ![1].pos = t.queue[Len(t.queue)],
                                     ![1].end = NodeEnd(index, t.queue[Len(t.queue)])]
             /\ UNCHANGED <<ret, first>>
  /\ UNCHANGED <<size, index, rows, given, sealed, hist>>

AgainNext == AgainStart \/ AgainChild \/ AgainPop

SpecAgain == AgainInit /\ [][AgainNext]_vars

\* ------------------------------------------------------------- vocabulary
\* The query rectangles the properties range over, for the index at hand.
Queries == IF size <= MaxSmall THEN SmallQueries ELSE BigQueries

FiniteRect(r) == IsFinite(r[1]) /\ IsFinite(r[2]) /\ IsFinite(r[3]) /\ IsFinite(r[4])
NonInverted(r) == r[1] <= r[3] /\ r[2] <= r[4]

\* Disjointness and containment as the properties state them, on doubles.
RectDisjoint(q, b) == Lt(q[3], b[1]) \/ Lt(q[4], b[2]) \/ Gt(q[1], b[3]) \/ Gt(q[2], b[4])
RectContains(q, b) == Le(q[1], b[1]) /\ Le(q[2], b[2]) /\ Ge(q[3], b[3]) /\ Ge(q[4], b[4])

\* The rectangle with each inverted finite pair swapped.
Normalized(q) ==
  <<IF IsFinite(q[1]) /\ IsFinite(q[3]) /\ q[1] > q[3] THEN q[3] ELSE q[1],
    IF IsFinite(q[2]) /\ IsFinite(q[4]) /\ q[2] > q[4] THEN q[4] ELSE q[2],
    IF IsFinite(q[1]) /\ IsFinite(q[3]) /\ q[1] > q[3] THEN q[1] ELSE q[3],
    IF IsFinite(q[2]) /\ IsFinite(q[4]) /\ q[2] > q[4] THEN q[2] ELSE q[4]>>

\* _normalize swaps the pairs of q that are inverted and finite (the sum of no
\* such pair overflows).
SwapsAsStated(q) == normalize(q) = Normalized(q)

\* The scan of all rows: the insertion positions whose box is not disjoint from
\* the normalized query.
BruteForce(q) == {i \in 0..(Len(rows) - 1) : ~RectDisjoint(Normalized(q), rows[i + 1])}

\* The same scan over the boxes as they were given to the add calls.
BruteForceGiven(q) ==
  {i \in 0..(Len(given) - 1) : ~RectDisjoint(Normalized(q), given[i + 1])}

AllRows(P(_)) == \A k \in 1..Len(rows) : P(rows[k])
IsAdd(op) == op \in {"add_rect", "add_point", "add_empty"}
IsQuery(op) == op \in {"indices", "bounds"}

\* ------------------------------------------------------------------ claims

\* C1: on an index of capacity N > 0 filled with N finite, non-inverted boxes
\* and finished, indices(q) is for every query q exactly the set of insertion
\* positions whose box is not disjoint from the normalized q (touching boxes
\* included), in single-node and in multi-level trees.
C1_Pre ==
  /\ size > 0
  /\ Finished
  /\ AllRows(FiniteRect)
  /\ AllRows(NonInverted)

C1_IndicesIsBruteForce ==
  (/\ size > 0
   /\ Finished
   /\ \A k \in 1..Len(given) : FiniteRect(given[k]) /\ NonInverted(given[k])) =>
    /\ ret.op = "finish" => \A q \in Queries : indices(index, q) = BruteForceGiven(q)
    /\ ret.op = "indices" => ~ret.threw /\ ret.idx = BruteForceGiven(ret.arg)

\* C1 for boxes that are stored as they were given (the sum of the coordinates
\* of each is finite) and queries that are normalized as stated.
C1_StoredAsGiven ==
  C1_Pre =>
    /\ ret.op = "finish" =>
         \A q \in Queries : SwapsAsStated(q) => indices(index, q) = BruteForce(q)
    /\ (ret.op = "indices" /\ SwapsAsStated(ret.arg)) =>
         (~ret.threw /\ ret.idx = BruteForce(ret.arg))

C1_Witness ==
  /\ C1_Pre
  /\ size > nodeSize
  /\ ret.op = "indices"
  /\ ret.idx # {}
  /\ ret.idx # 0..(size - 1)
  /\ \E i \in ret.idx : \E k \in 1..4 : Normalized(ret.arg)[k] = rows[i + 1][k]

\* C2: a slot filled by add_empty(), or by add_rect / add_point with a
\* non-finite coordinate, is never in indices(q) on the finished index,
\* whatever the query.
C2_EmptySlotNeverReturned ==
  (size > 0 /\ Finished /\ ret.op = "indices" /\ ~ret.threw) =>
    \A i \in ret.idx : rows[i + 1] # empty

\* C3: on an index of capacity > 0, indices(q) and bounds(q) throw as long as
\* finish() has not been called, after any number of add calls.
C3_QueryBeforeFinishThrows ==
  (size > 0 /\ ~sealed.called /\ IsQuery(ret.op)) => ret.threw

\* C4: on an index of capacity > 0 that already took `capacity` add calls, a
\* further add_rect, add_point or add_empty call raises an error.
C4_AddBeyondCapacityThrows ==
  (size > 0 /\ IsAdd(ret.op) /\ Len(rows) > size) => ret.threw

\* C5: once finish() has returned on an index of capacity > 0, whatever add and
\* finish calls follow, indices(q), bounds(q) and bbox do not throw and return
\* what they returned right after that finish().
C5_FinishedStaysFinished ==
  (size > 0 /\ sealed.done) =>
    /\ ~query_throws(index)
    /\ bbox(index) = bbox(sealed.index)
    /\ \A q \in QueryInputs :
         /\ indices(index, q) = indices(sealed.index, q)
         /\ bounds(index, q) = bounds(sealed.index, q)

\* C6: in a finished index, for inserted finite rectangles r1 and r2 and a
\* query q: if q contains r1 and q is disjoint from r2, indices(q) includes the
\* slot of r1 and excludes the slot of r2 (r1 and r2 two different slots, q
\* taken as normalized).
C6_ContainedInDisjointOut ==
  (size > 0 /\ Finished /\ ret.op = "finish") =>
    \A q \in Queries :
      LET found == indices(index, q)
      IN \A i, j \in 0..(size - 1) :
           (/\ i # j
            /\ FiniteRect(rows[i + 1])
            /\ FiniteRect(rows[j + 1])
            /\ RectContains(Normalized(q), rows[i + 1])
            /\ RectDisjoint(Normalized(q), rows[j + 1]))
           => (i \in found /\ j \notin found)

\* C6 restricted to non-inverted stored rectangles and queries that are
\* normalized as stated.
C6_NonInvertedOnly ==
  (size > 0 /\ Finished /\ ret.op = "finish") =>
    \A q \in Queries :
      LET found == indices(index, q)
      IN \A i, j \in 0..(size - 1) :
           (/\ SwapsAsStated(q)
            /\ FiniteRect(rows[i + 1]) /\ NonInverted(rows[i + 1])
            /\ FiniteRect(rows[j + 1]) /\ NonInverted(rows[j + 1])
            /\ RectContains(Normalized(q), rows[i + 1])
            /\ RectDisjoint(Normalized(q), rows[j + 1]))
           => (i \in found /\ j \notin found)

\* C7: on every finished index, whatever it holds, indices(empty rect) is the
\* empty set and bounds(empty rect) is the canonical empty rectangle; the
\* normalization of the query leaves the empty rectangle as it is.
C7_EmptyQuery ==
  /\ normalize(empty) = empty
  /\ (Finished \/ (size = 0 /\ sealed.called)) =>
       /\ ~query_throws(index)
       /\ indices(index, empty) = {}
       /\ bounds(index, empty) = empty
       /\ (IsQuery(ret.op) /\ ret.arg = empty) =>
            (~ret.threw /\ ret.idx = {} /\ ret.rect = empty)

C7_Witness ==
  /\ Finished
  /\ size > nodeSize
  /\ \E k \in 1..Len(rows) : rows[k] = empty
  /\ \E k \in 1..Len(rows) : FiniteRect(rows[k])
  /\ ret.op = "bounds"
  /\ ret.arg = empty
  /\ ret.rect = empty

\* C8: when all N > 0 inserted items are finite, indices(full rect) on the
\* finished index is every slot 0..N-1, in single-node and multi-level trees.
C8_FullQuery ==
  (size > 0 /\ Finished /\ \A k \in 1..Len(given) : FiniteRect(given[k])) =>
    /\ indices(index, full) = 0..(size - 1)
    /\ (ret.op = "indices" /\ ret.arg = full) => (~ret.threw /\ ret.idx = 0..(size - 1))

C8_Witness ==
  /\ size > nodeSize
  /\ Finished
  /\ AllRows(FiniteRect)
  /\ ret.op = "indices"
  /\ ret.arg = full
  /\ ret.idx = 0..(size - 1)

\* C9: on an index constructed with capacity 0 every add_rect, add_point,
\* add_empty and finish call is a no-op that raises no error, and at every
\* point indices(q) is the empty set, bounds(q) and bbox the canonical empty
\* rectangle.
C9_ZeroCapacity ==
  size = 0 =>
    /\ index = NullIndex
    /\ ~ret.threw
    /\ ret.idx = {}
    /\ ret.rect = empty
    /\ ~query_throws(index)
    /\ bbox(index) = empty
    /\ \A q \in Queries : indices(index, q) = {} /\ bounds(index, q) = empty

C9_Witness ==
  /\ size = 0
  /\ Len(rows) > 0
  /\ sealed.called
  /\ ret.op = "bounds"
  /\ ret.arg = full
  /\ ret.rect = empty

\* C10: every add_rect, add_point and add_empty call, finite or not, takes
\* exactly one slot, and the index a query reports for a stored box is the
\* 0-based ordinal of the add call that stored it, however the leaves were
\* reordered inside the tree.
C10_SlotIsOrdinal ==
  /\ (size > 0 /\ ~sealed.done) =>
       /\ index.pos = 4 * Len(rows)
       /\ \A k \in 0..(Len(rows) - 1) :
            k < size => (BoxAt(index, 4 * k) = rows[k + 1] /\ At(index.indices, k) = k)
  /\ (size > 0 /\ Finished /\ ret.op = "finish") =>
       /\ Len(rows) = size
       /\ \A q \in Queries :
            LET visits == search_apply(index, normalize(q))
            IN \A v \in 1..Len(visits) :
                 /\ visits[v].index \in 0..(size - 1)
                 /\ visits[v].node = rows[visits[v].index + 1]

C10_Witness ==
  /\ size > nodeSize
  /\ Finished
  /\ \E k \in 0..(size - 1) : At(index.indices, k) # k
  /\ \E k \in 1..Len(rows) : rows[k] = empty
  /\ ret.op = "indices"
  /\ ret.idx # {}
  /\ ret.idx # 0..(size - 1)

\* The box an add_rect / add_point call was given, from the call's arguments.
GivenBox(r) ==
  IF r.op = "add_rect" THEN r.arg ELSE <<r.arg[1], r.arg[2], r.arg[1], r.arg[2]>>

\* The slot the last add call wrote: the call is made while building, within
\* the capacity.
LastSlot == BoxAt(index, 4 * (Len(rows) - 1))
AddWithinCapacity ==
  size > 0 /\ ~sealed.done /\ Len(rows) <= size /\ ret.op \in {"add_rect", "add_point"}

\* C11: add_rect / add_point with a NaN or infinite coordinate stores exactly
\* the canonical empty box in the next slot and raises no error; with
\* all-finite coordinates it stores the coordinates it was given (a point as
\* x0 = x1, y0 = y1).
C11_AddStoresGivenOrEmpty ==
  AddWithinCapacity =>
    /\ ~ret.threw
    /\ IF \A k \in 1..4 : IsFinite(GivenBox(ret)[k])
       THEN LastSlot = GivenBox(ret)
       ELSE LastSlot = empty

\* C11 restricted to coordinates whose sum does not overflow.
C11_FiniteSumOnly ==
  (AddWithinCapacity /\ \A k \in 1..4 : GivenBox(ret)[k] # MaxValue) =>
    /\ ~ret.threw
    /\ IF \A k \in 1..4 : IsFinite(GivenBox(ret)[k])
       THEN LastSlot = GivenBox(ret)
       ELSE LastSlot = empty

\* The finite boxes among the stored rows, and the enclosing box of a set of
\* finite boxes (the canonical empty rectangle for no box).
FiniteRows == {rows[k] : k \in 1..Len(rows)} \ {empty}
SetMin(S) == CHOOSE m \in S : \A x \in S : m <= x
SetMax(S) == CHOOSE m \in S : \A x \in S : m >= x
Enclosing(S) ==
  IF S = {} THEN empty
  ELSE <<SetMin({b[1] : b \in S}), SetMin({b[2] : b \in S}),
         SetMax({b[3] : b \in S}), SetMax({b[4] : b \in S})>>

\* a <= x <= b on doubles.
Within(x, a, b) == Le(a, x) /\ Le(x, b)

\* C12: on every finished index and for every query q, a bounds(q) other
\* than the canonical empty rectangle has x0 and x1 in [q.x0, q.x1], y0 and y1
\* in [q.y0, q.y1], and all four edges within the enclosing box of the finite
\* inserted items.
C12_BoundsWithinQueryAndData ==
  (size > 0 /\ Finished /\ ret.op = "finish") =>
    \A q \in Queries :
      LET b == bounds(index, q)
          n == Normalized(q)
          e == Enclosing(FiniteRows)
      IN b # empty =>
           /\ Within(b[1], n[1], n[3]) /\ Within(b[3], n[1], n[3])
           /\ Within(b[2], n[2], n[4]) /\ Within(b[4], n[2], n[4])
           /\ Within(b[1], e[1], e[3]) /\ Within(b[3], e[1], e[3])
           /\ Within(b[2], e[2], e[4]) /\ Within(b[4], e[2], e[4])

\* The finite items as they were given to the add calls.
FiniteGiven == {given[k] : k \in 1..Len(given)} \ {empty}

\* C13: on every finished index bounds(full rect) is the union bounding box
\* (min x0, min y0, max x1, max y1) of all finite inserted items; slots
\* holding the canonical empty box do not affect it.
C13_BoundsOfFullIsUnion ==
  (size > 0 /\ Finished) =>
    /\ bounds(index, full) = Enclosing(FiniteGiven)
    /\ (ret.op = "bounds" /\ ret.arg = full) =>
         (~ret.threw /\ ret.rect = Enclosing(FiniteGiven))

\* C13 for items that are stored as they were given.
C13_StoredAsGiven ==
  (size > 0 /\ Finished /\ rows = given) =>
    /\ bounds(index, full) = Enclosing(FiniteRows)
    /\ (ret.op = "bounds" /\ ret.arg = full) =>
         (~ret.threw /\ ret.rect = Enclosing(FiniteRows))

\* The aggregates of a fold of the callback over visits: element k + 1 is the
\* aggregate after the first k visits, element 1 the rectangle it starts from.
RECURSIVE AggregateTrace(_, _, _, _)
AggregateTrace(q, visits, k, trace) ==
  IF Computed(trace) /\ k > Len(visits) THEN trace
  ELSE AggregateTrace(q, visits, k + 1,
                      Append(trace, BoundsStep(q, trace[Len(trace)], visits[k].node)))
Aggregates(r) ==
  AggregateTrace(normalize(r), search_apply(index, normalize(r)), 1, <<empty>>)
Visits(r) == search_apply(index, normalize(r))

\* C14 (as stated): the aggregate x0 (y0) is replaced by a visited box's x0
\* (y0) only if that is >= q.x0 (q.y0) and larger than the current aggregate;
\* x1 (y1) only if the box's is <= q.x1 (q.y1) and smaller than the current
\* aggregate.
C14_ReplacedOnlyIfLarger ==
  (size > 0 /\ Finished /\ IsQuery(ret.op)) =>
    LET q == normalize(ret.arg)
        vs == Visits(ret.arg)
        tr == Aggregates(ret.arg)
    IN \A k \in 1..Len(vs) :
         LET node == vs[k].node
             old == tr[k]
             new == tr[k + 1]
         IN /\ new[1] # old[1] => (Ge(node[1], q[1]) /\ Gt(node[1], old[1]))
            /\ new[2] # old[2] => (Ge(node[2], q[2]) /\ Gt(node[2], old[2]))
            /\ new[3] # old[3] => (Le(node[3], q[3]) /\ Lt(node[3], old[3]))
            /\ new[4] # old[4] => (Le(node[4], q[4]) /\ Lt(node[4], old[4]))

\* C14 (amended): the aggregate x0 (y0) is replaced, by the visited box's x0
\* (y0), only if that is >= q.x0 (q.y0) and smaller than the current
\* aggregate; x1 (y1) only if the box's is <= q.x1 (q.y1) and larger than the
\* current aggregate; bounds(q) returns the last aggregate.
C14_ReplacedOnlyIfTighter ==
  (size > 0 /\ Finished /\ (IsQuery(ret.op) \/ ret.op = "finish")) =>
    \A r \in (IF ret.op = "finish" THEN Queries ELSE {ret.arg}) :
      LET q == normalize(r)
          vs == Visits(r)
          tr == Aggregates(r)
      IN /\ \A k \in 1..Len(vs) :
              LET node == vs[k].node
                  old == tr[k]
                  new == tr[k + 1]
              IN /\ new[1] # old[1] => (Ge(node[1], q[1]) /\ Lt(node[1], old[1]) /\ new[1] = node[1])
                 /\ new[2] # old[2] => (Ge(node[2], q[2]) /\ Lt(node[2], old[2]) /\ new[2] = node[2])
                 /\ new[3] # old[3] => (Le(node[3], q[3]) /\ Gt(node[3], old[3]) /\ new[3] = node[3])
                 /\ new[4] # old[4] => (Le(node[4], q[4]) /\ Gt(node[4], old[4]) /\ new[4] = node[4])
         /\ ret.op = "bounds" => ret.rect = tr[Len(tr)]

\* A bounds call on a multi-level index in which a finite aggregate edge was
\* replaced by a later visit.
C14_Witness ==
  /\ size > nodeSize
  /\ Finished
  /\ ret.op = "bounds"
  /\ LET tr == Aggregates(ret.arg)
     IN \E k \in 2..(Len(tr) - 1) : \E e \in 1..4 :
          tr[k + 1][e] # tr[k][e] /\ IsFinite(tr[k][e])

\* The stored boxes not disjoint from the normalized query, and the edges the
\* property computes from them, each on its own.
Matches(q) == {rows[i + 1] : i \in BruteForce(q)}
EdgeWise(q) ==
  LET n == Normalized(q)
      x0s == {b[1] : b \in {m \in Matches(q) : Ge(m[1], n[1])}}
      y0s == {b[2] : b \in {m \in Matches(q) : Ge(m[2], n[2])}}
      x1s == {b[3] : b \in {m \in Matches(q) : Le(m[3], n[3])}}
      y1s == {b[4] : b \in {m \in Matches(q) : Le(m[4], n[4])}}
  IN <<IF x0s = {} THEN PInf ELSE SetMin(x0s), IF y0s = {} THEN PInf ELSE SetMin(y0s),
       IF x1s = {} THEN NInf ELSE SetMax(x1s), IF y1s = {} THEN NInf ELSE SetMax(y1s)>>

\* C15: on every finished index of finite boxes, with M the stored boxes not
\* disjoint from q, bounds(q).x0 is the least b.x0 >= q.x0 of M (+Inf if
\* none), bounds(q).x1 the greatest b.x1 <= q.x1 of M (-Inf if none), likewise
\* y0 and y1; bounds(q) is the canonical empty rectangle when M is empty.
C15_BoundsIsEdgeWise ==
  (size > 0 /\ Finished /\ AllRows(FiniteRect)) =>
    /\ ret.op = "finish" =>
         \A q \in Queries :
           /\ bounds(index, q) = EdgeWise(q)
           /\ Matches(q) = {} => bounds(index, q) = empty
    /\ ret.op = "bounds" => (~ret.threw /\ ret.rect = EdgeWise(ret.arg))

\* C15 for stored boxes that are not inverted and queries that are normalized
\* as stated.
C15_NonInvertedOnly ==
  (size > 0 /\ Finished /\ AllRows(FiniteRect) /\ AllRows(NonInverted)) =>
    /\ ret.op = "finish" =>
         \A q \in Queries :
           SwapsAsStated(q) =>
             /\ bounds(index, q) = EdgeWise(q)
             /\ Matches(q) = {} => bounds(index, q) = empty
    /\ (ret.op = "bounds" /\ SwapsAsStated(ret.arg)) =>
         (~ret.threw /\ ret.rect = EdgeWise(ret.arg))

\* C16: on a finished index indices(q) and bounds(q) change nothing of the
\* index (boxes, child pointers, level bounds, position counter, bbox), and a
\* query made again, with other queries in between, returns what it returned
\* the first time: every returning call of SpecAgain, whatever the calls
\* before it left behind, finds the index as finish() left it and returns
\* what the first call with the same rectangle returned, which is what the
\* call returns on the index as finish() left it.
C16_QueriesChangeNothing ==
  /\ Finished
  /\ (trav[1].phase = "done" /\ IsQuery(ret.op)) =>
       /\ ~ret.threw
       /\ ret.op = "indices" => ret.idx = indices(sealed.index, ret.arg)
       /\ ret.op = "bounds" => ret.rect = bounds(sealed.index, ret.arg)
       /\ (first.op = ret.op /\ first.arg = ret.arg) =>
            (ret.idx = first.idx /\ ret.rect = first.rect)

\* On the multi-level tree a bounds call returned a rectangle, other calls
\* were made after it, and the same call made again has returned.
C16_Witness ==
  /\ size > nodeSize
  /\ trav[1].phase = "done"
  /\ first.op = "bounds"
  /\ first.arg = <<1, 0, 3, 2>>
  /\ first.rect # empty
  /\ first.between
  /\ first.again
  /\ ret.op = first.op
  /\ ret.arg = first.arg
  /\ ret.rect = first.rect

\* C17: for a query rectangle with finite coordinates where x0 > x1 and / or
\* y0 > y1, indices(q) and bounds(q) return what they return for the
\* rectangle with the offending pairs swapped; a pair that holds a non-finite
\* value is never swapped.
C17_InvertedQueryIsSwapped ==
  /\ (size > 0 /\ Finished /\ ret.op = "finish") =>
       \A q \in Queries :
         FiniteRect(q) =>
           /\ indices(index, q) = indices(index, Normalized(q))
           /\ bounds(index, q) = bounds(index, Normalized(q))
  /\ (size > 0 /\ Finished /\ IsQuery(ret.op) /\ FiniteRect(ret.arg)) =>
       /\ ret.op = "indices" => ret.idx = indices(index, Normalized(ret.arg))
       /\ ret.op = "bounds" => ret.rect = bounds(index, Normalized(ret.arg))
  /\ \A q \in Queries :
       /\ (~IsFinite(q[1]) \/ ~IsFinite(q[3])) =>
            (normalize(q)[1] = q[1] /\ normalize(q)[3] = q[3])
       /\ (~IsFinite(q[2]) \/ ~IsFinite(q[4])) =>
            (normalize(q)[2] = q[2] /\ normalize(q)[4] = q[4])

\* C17 for finite pairs whose sum does not overflow.
C17_FiniteSumOnly ==
  /\ (size > 0 /\ Finished /\ ret.op = "finish") =>
       \A q \in Queries :
         (FiniteRect(q) /\ IsFinite(Plus(q[1], q[3])) /\ IsFinite(Plus(q[2], q[4]))) =>
           /\ indices(index, q) = indices(index, Normalized(q))
           /\ bounds(index, q) = bounds(index, Normalized(q))
  /\ (size > 0 /\ Finished /\ IsQuery(ret.op) /\ FiniteRect(ret.arg)) =>
       /\ ret.op = "indices" => ret.idx = indices(index, Normalized(ret.arg))
       /\ ret.op = "bounds" => ret.rect = bounds(index, Normalized(ret.arg))
  /\ \A q \in Queries :
       /\ (~IsFinite(q[1]) \/ ~IsFinite(q[3])) =>
            (normalize(q)[1] = q[1] /\ normalize(q)[3] = q[3])
       /\ (~IsFinite(q[2]) \/ ~IsFinite(q[4])) =>
            (normalize(q)[2] = q[2] /\ normalize(q)[4] = q[4])

\* C18: after add_rect with finite coordinates where x0 > x1 or y0 > y1 the
\* stored leaf box is the normalized box or the canonical empty box; every
\* stored leaf box of any index has x0 <= x1 and y0 <= y1 or is the canonical
\* empty box.
C18_StoredBoxNotInverted ==
  /\ (AddWithinCapacity /\ ret.op = "add_rect" /\ FiniteRect(ret.arg)
        /\ ~NonInverted(ret.arg)) =>
       (LastSlot = Normalized(ret.arg) \/ LastSlot = empty)
  /\ size > 0 =>
       \A k \in 0..(size - 1) :
         NonInverted(BoxAt(index, 4 * k)) \/ BoxAt(index, 4 * k) = empty

\* The finite, non-inverted items given to the add calls so far.
ProperGiven == {g \in FiniteGiven : NonInverted(g)}

\* C20: bbox never throws; for capacity 0 it is the canonical empty rectangle;
\* otherwise it is, at any point of the lifecycle, the enclosing box of the
\* finite non-inverted items added so far (canonical empty if none); on a
\* finished index bbox equals bounds(full rect).
C20_BboxIsEnclosingBox ==
  /\ size = 0 => bbox(index) = empty
  /\ size > 0 => bbox(index) = Enclosing(ProperGiven)
  /\ (size > 0 /\ Finished) => bbox(index) = bounds(index, full)
  /\ ret.op = "bbox" =>
       (~ret.threw /\ ret.rect = (IF size = 0 THEN empty ELSE Enclosing(ProperGiven)))

\* C20 for items that are stored as they were given and are not inverted.
C20_ProperOnly ==
  (rows = given /\ \A k \in 1..Len(rows) : rows[k] = empty \/ NonInverted(rows[k])) =>
    /\ size = 0 => bbox(index) = empty
    /\ size > 0 => bbox(index) = Enclosing(ProperGiven)
    /\ (size > 0 /\ Finished) => bbox(index) = bounds(index, full)
    /\ ret.op = "bbox" =>
         (~ret.threw /\ ret.rect = (IF size = 0 THEN empty ELSE Enclosing(ProperGiven)))

\* C19: traversals of indices() / bounds() running on the same finished index
\* with their loop steps interleaved in any way each make the calls of the
\* visit function they make when run alone, and the index stays as it was: a
\* traversal writes its own work stack and accumulator only.
C19_InterleavedTraversals ==
  /\ index = sealed.index
  /\ \A t \in Traversals :
       trav[t].phase = "done" => trav[t].out = search_apply(index, trav[t].q)

C19_Witness ==
  /\ size > nodeSize
  /\ \A t \in Traversals : trav[t].phase = "done"
  /\ trav[1].q # trav[2].q
  /\ \A t \in 1..2 :
       /\ trav[t].out # <<>>
       /\ Len(trav[t].out) < size
       /\ trav[t].out = search_apply(index, trav[t].q)

\* The index of the rectangle test, and of the point test, finished.
RectSetFinished == size = RectSetSize /\ Finished
PointSetFinished == size = PointSetSize /\ Finished

\* C21: the index of capacity 6 filled with add_rect (0,1,1,2), (0.0001,1,1,2),
\* (0,100,1,200), (0.0001,-100,1,200), (0,10,1,20), (-0.0001,10,1,20) and
\* finished has bounds(full rect) = {x0: -0.0001, y0: -100, x1: 1, y1: 200} and
\* bounds(empty rect) = the canonical empty rectangle.
C21_RectSetScenario ==
  RectSetFinished =>
    /\ bounds(index, full) = <<-E4, -100, One, 200>>
    /\ bounds(index, empty) = empty
    /\ (ret.op = "bounds" /\ ret.arg = full) =>
         (~ret.threw /\ ret.rect = <<-E4, -100, One, 200>>)
    /\ (ret.op = "bounds" /\ ret.arg = empty) => (~ret.threw /\ ret.rect = empty)

C21_Witness ==
  /\ RectSetFinished
  /\ rows = RectSet
  /\ ret.op = "bounds"
  /\ ret.arg = full
  /\ ret.rect = <<-E4, -100, One, 200>>

\* C22: the index of capacity 45 filled with the points of the point test in
\* the test's order and finished is a multi-level tree; indices of the
\* positive-x half plane (x0 the smallest positive value, x1 = +Inf, y
\* unbounded) is exactly slot 1 and slots 5..24, which are exactly the points
\* with x > 0 (none with x = 0), and bounds of that half plane is
\* {x0: 0.0001, y0: -11, x1: 11, y1: 11}.
C22_PointSetScenario ==
  PointSetFinished =>
    /\ Len(index.levelBounds) > 2
    /\ indices(index, positive_x) = {1} \cup (5..24)
    /\ indices(index, positive_x) = {i \in 0..(PointSetSize - 1) : PointSet[i + 1][1] > 0}
    /\ bounds(index, positive_x) = <<E4, -Eleven, Eleven, Eleven>>
    /\ (ret.arg = positive_x /\ IsQuery(ret.op)) =>
         /\ ~ret.threw
         /\ ret.op = "indices" => ret.idx = {1} \cup (5..24)
         /\ ret.op = "bounds" => ret.rect = <<E4, -Eleven, Eleven, Eleven>>

C22_Witness ==
  /\ PointSetFinished
  /\ given = [k \in 1..PointSetSize |->
               <<PointSet[k][1], PointSet[k][2], PointSet[k][1], PointSet[k][2]>>]
  /\ \E k \in 0..(size - 1) : At(index.indices, k) # k
  /\ ret.op = "indices"
  /\ ret.arg = positive_x
  /\ ret.idx = {1} \cup (5..24)

\* The stored boxes other than the canonical empty box, in call order, and the
\* running call of SpecSearch having returned.
NonEmpty(boxes) == SelectSeq(boxes, LAMBDA b : b # empty)
SearchDone == trav[1].phase = "done"

\* The stepwise run of SpecSearch returns what bounds(rect) returns.
SearchIsBounds == SearchDone => ret.rect = bounds(index, ret.arg)

\* C23: for any finite boxes S and any query q, bounds(q) on an index built
\* from S and any number of add_empty() entries, at any insertion positions,
\* equals bounds(q) on an index built from S alone.
C23_EmptyIsNeutral ==
  SearchDone =>
    /\ ret.rect = bounds(Built(NonEmpty(rows)), ret.arg)
    /\ bounds(index, ret.arg) = bounds(Built(NonEmpty(rows)), ret.arg)

\* C23 for stored boxes that are not inverted.
C23_NonInvertedOnly ==
  (SearchDone /\ \A k \in 1..Len(rows) : rows[k] = empty \/ NonInverted(rows[k])) =>
    /\ ret.rect = bounds(Built(NonEmpty(rows)), ret.arg)
    /\ bounds(index, ret.arg) = bounds(Built(NonEmpty(rows)), ret.arg)

\* The flat offsets of the leaves of a leaf range.
RangeLeaves(range) == {p \in range[1]..range[2] : p % 4 = 0}

\* C24: in one search_apply run on a finished index the visit function is
\* called at most once per leaf slot, and exactly once for every leaf whose
\* box is not disjoint from the query; the leaf ranges visited through the
\* containment short cut do not overlap, and no leaf of such a range is
\* visited again.
C24_VisitedOnce ==
  LET out == trav[1].out
      q == trav[1].q
  IN /\ \A i, j \in 1..Len(out) : i # j => out[i].index # out[j].index
     /\ \A a, b \in 1..Len(hist.short) :
          a # b => RangeLeaves(hist.short[a].range) \cap RangeLeaves(hist.short[b].range) = {}
     /\ Len(out) >= Cardinality(UNION {RangeLeaves(hist.short[a].range) : a \in 1..Len(hist.short)})
     /\ SearchDone =>
          \A k \in 0..(size - 1) :
            ~RectDisjoint(q, rows[k + 1]) =>
              Cardinality({i \in 1..Len(out) : out[i].index = k}) = 1

\* A run on a tree of several levels that visited the leaves of a contained
\* node untested, visited other leaves one by one, and left some out.
C24_Witness ==
  /\ SearchDone
  /\ size > nodeSize
  /\ \E a \in 1..Len(hist.short) :
       /\ hist.short[a].pos >= 4 * size
       /\ hist.short[a].pos < Len(index.boxes) - 4
  /\ \E i \in 1..Len(trav[1].out) :
       \A a \in 1..Len(hist.short) :
         hist.short[a].pos >= 4 * size =>
           \A p \in RangeLeaves(hist.short[a].range) :
             At(index.indices, p \div 4) # trav[1].out[i].index
  /\ Len(trav[1].out) < size

\* The entries of hist.short for the boxes of internal nodes and of the root.
NodeShortCuts == {a \in 1..Len(hist.short) : hist.short[a].pos >= 4 * size}

\* C25: every leaf visited through the containment short cut taken on the box
\* of an internal node or of the root has a stored box that the query
\* contains, and is a leaf that the per-leaf disjointness test does not reject.
C25_ShortCutLeavesContained ==
  \A a \in NodeShortCuts :
    \A p \in RangeLeaves(hist.short[a].range) :
      /\ RectContains(trav[1].q, BoxAt(index, p))
      /\ ~RectDisjoint(trav[1].q, BoxAt(index, p))

\* C25 for indices that hold neither an empty slot nor an inverted box.
C25_ProperOnly ==
  (\A k \in 1..Len(rows) : rows[k] # empty /\ NonInverted(rows[k])) =>
    \A a \in NodeShortCuts :
      \A p \in RangeLeaves(hist.short[a].range) :
        /\ RectContains(trav[1].q, BoxAt(index, p))
        /\ ~RectDisjoint(trav[1].q, BoxAt(index, p))

\* The tree as finish() lays it out: the level of a box position (0 for the
\* leaves), the end offset of its level, the positions of the children of the
\* internal node at pos, and the leaf positions below pos.
BoxPositions(ix) == {p \in 0..(Len(ix.boxes) - 4) : p % 4 = 0}
Level(ix, pos) == Cardinality({i \in 1..Len(ix.levelBounds) : ix.levelBounds[i] <= pos})
LevelEnd(ix, pos) == ix.levelBounds[Level(ix, pos) + 1]
ChildRun(ix, pos) ==
  LET start == ix.indices[(pos \div 4) + 1]
      stop == IF start + 4 * nodeSize < LevelEnd(ix, start)
              THEN start + 4 * nodeSize ELSE LevelEnd(ix, start)
  IN {c \in start..(stop - 1) : c % 4 = 0}
RECURSIVE LeavesBelow(_, _)
LeavesBelow(ix, pos) ==
  IF Level(ix, pos) = 0 THEN {pos}
  ELSE UNION {LeavesBelow(ix, c) : c \in ChildRun(ix, pos)}

\* C26: for every box position pos the leaf range [pos_start, pos_end] that
\* the depth search computes is exactly the set of leaf positions below pos:
\* 4-aligned, contiguous, not empty and inside [0, numItems * 4); pos_start
\* and pos_end go down one level in each iteration and reach the leaf level
\* in the same one.  So is every leaf range a run has visited untested.
C26_LeafRangeIsSubtree ==
  /\ \A pos \in BoxPositions(index) :
       LET range == Descend(index, pos, pos)
           trace == DescendTrace(index, pos, pos, <<<<pos, pos>>>>)
       IN /\ RangeLeaves(range) = LeavesBelow(index, pos)
          /\ range[1] % 4 = 0 /\ range[2] % 4 = 0
          /\ 0 <= range[1] /\ range[1] <= range[2] /\ range[2] < 4 * index.numItems
          /\ Len(trace) = Level(index, pos) + 1
          /\ trace[Len(trace)] = range
          /\ \A k \in 1..Len(trace) :
               /\ Level(index, trace[k][1]) = Level(index, pos) - (k - 1)
               /\ Level(index, trace[k][2]) = Level(index, pos) - (k - 1)
  /\ \A a \in 1..Len(hist.short) :
       RangeLeaves(hist.short[a].range) = LeavesBelow(index, hist.short[a].pos)

\* A run on a tree of three levels that took the short cut on the box of a
\* node of the middle level that is not the first one.
C26_Witness ==
  /\ Len(index.levelBounds) = 3
  /\ nodeSize < size
  /\ \E a \in 1..Len(hist.short) :
       /\ hist.short[a].pos > 4 * size
       /\ hist.short[a].pos < Len(index.boxes) - 4
       /\ hist.short[a].range[1] > 0
       /\ hist.short[a].range[2] > hist.short[a].range[1]

\* The internal nodes of a tree (the root among them) and the positions of one
\* level.
InternalNodes(ix) == {p \in BoxPositions(ix) : p >= 4 * ix.numItems}
LevelPositions(ix, l) == {p \in BoxPositions(ix) : Level(ix, p) = l}

\* The componentwise min / max box of a set of positions (doubles, none NaN).
BoxOver(ix, P) ==
  <<SetMin({At(ix.boxes, p) : p \in P}), SetMin({At(ix.boxes, p + 1) : p \in P}),
    SetMax({At(ix.boxes, p + 2) : p \in P}), SetMax({At(ix.boxes, p + 3) : p \in P})>>

\* C27: after finish() on an index of capacity N > 0 the tree is well formed:
\* the children of each internal node are a run of 1 to nodeSize consecutive
\* boxes of the level below that ends at min(start + 4 * nodeSize, end of
\* that level); the runs of the nodes of one level are pairwise disjoint and
\* cover the level below; the box of each internal node is the componentwise
\* min / max box of its children; and the box of the single top node is bbox.
C27_TreeWellFormed ==
  (size > 0 /\ Finished /\ ret.op = "finish") =>
    /\ Len(index.boxes) = index.levelBounds[Len(index.levelBounds)]
    /\ LevelPositions(index, Len(index.levelBounds) - 1) = {Len(index.boxes) - 4}
    /\ BoxAt(index, Len(index.boxes) - 4) = bbox(index)
    /\ \A p \in InternalNodes(index) :
         LET start == At(index.indices, p \div 4)
             run == ChildRun(index, p)
         IN /\ start % 4 = 0
            /\ Level(index, start) = Level(index, p) - 1
            /\ Cardinality(run) >= 1 /\ Cardinality(run) <= nodeSize
            /\ run = {c \in BoxPositions(index) :
                        /\ start <= c
                        /\ c < start + 4 * nodeSize
                        /\ c < LevelEnd(index, start)}
            /\ NodeEnd(index, start) = SetMax(run) + 4
            /\ BoxAt(index, p) = BoxOver(index, run)
    /\ \A p1, p2 \in InternalNodes(index) :
         p1 # p2 => ChildRun(index, p1) \cap ChildRun(index, p2) = {}
    /\ \A l \in 1..(Len(index.levelBounds) - 1) :
         UNION {ChildRun(index, p) : p \in LevelPositions(index, l)}
           = LevelPositions(index, l - 1)

\* finish() has just built a tree of several levels over points, a rectangle
\* and an empty slot.
C27_Witness ==
  /\ size > nodeSize
  /\ Finished
  /\ ret.op = "finish"
  /\ Len(index.levelBounds) = 3
  /\ \E k \in 1..Len(rows) : rows[k] = empty
  /\ \E k \in 1..Len(rows) : FiniteRect(rows[k]) /\ rows[k][1] < rows[k][3]

\* No start offset was pushed twice, and no more visits were made than the
\* index has items.
PushedOnce ==
  /\ \A i, j \in 1..Len(hist.pushed) : i # j => hist.pushed[i] # hist.pushed[j]
  /\ Len(trav[1].queue) <= Len(hist.pushed)
  /\ Len(trav[1].out) <= index.numItems

\* C28: search_apply terminates on every finished index for every query
\* rectangle (empty, full and half-infinite ones among them): each start
\* offset of an internal node is pushed on the work stack at most once, the
\* stack becomes empty and the call returns, and the visit function is called
\* at most numItems times.
C28_SearchTerminates ==
  /\ []PushedOnce
  /\ (trav[1].phase = "run") ~> (SearchDone /\ trav[1].queue = <<>>)

\* A run on a tree of three levels that pushed the start of the middle level
\* and the starts of leaf nodes, and has returned.
C28_Witness ==
  /\ SearchDone
  /\ Len(index.levelBounds) = 3
  /\ Len(hist.pushed) > 2
  /\ trav[1].queue = <<>>
  /\ trav[1].out # <<>>

\* The index that new SpatialIndex(n), FlatBush.add of the boxes from the k-th
\* on and one finish() build.
RECURSIVE Replay(_, _, _)
Replay(ix, boxes, k) ==
  IF Computed(ix) /\ k > Len(boxes) THEN finish(ix)
  ELSE Replay(add(ix, boxes[k][1], boxes[k][2], boxes[k][3], boxes[k][4]), boxes, k + 1)

\* finish() was called, and every call so far has thrown.
FinishFailed == size > 0 /\ sealed.called /\ ~sealed.done

\* A step of C29: a throwing finish(), a query after it, the finish() after
\* the missing add calls.
FailedFinishStep ==
  /\ (ret'.op = "finish" /\ size > 0 /\ Len(rows) < size) =>
       /\ ret'.threw
       /\ index' = index
       /\ ~sealed'.done
       /\ query_throws(index')
  /\ (IsQuery(ret'.op) /\ FinishFailed /\ Len(rows) < size) => ret'.threw
  /\ (ret'.op = "finish" /\ FinishFailed /\ Len(rows) = size) =>
       /\ ~ret'.threw
       /\ sealed'.done
       /\ index' = Replay(SpatialIndex(size), rows, 1)
       /\ ~query_throws(index')

\* C29: finish() on an index of capacity N > 0 after fewer than N add calls
\* raises an error and does not seal the index: the index is as it was, an
\* indices() or bounds() call after it still throws, and finish() after the
\* missing add calls returns and leaves the index that N add calls and one
\* finish() build, which answers queries.
C29_FailedFinishHarmless == [][FailedFinishStep]_vars

\* finish() has thrown on the multi-level capacity with some boxes added, and
\* the missing add calls were made after it.
C29_Witness ==
  /\ FinishFailed /\ size = BigSize /\ Len(rows) = size /\ IsAdd(ret.op)
  /\ index.pos < Len(index.boxes)

\* The start offsets of the child runs of the internal nodes of a tree.
ChildRunStarts(ix) == {ix.indices[(p \div 4) + 1] : p \in InternalNodes(ix)}

\* C30: on a finished index every index search_apply passes to the visit
\* function is an integer in [0, numItems), and every value pushed on the work
\* stack is the 4-aligned start offset of the child run of an existing
\* internal node; so search_indices sets no bit outside Indices(numItems).
C30_VisitsInRange ==
  /\ \A i \in 1..Len(trav[1].out) : trav[1].out[i].index \in 0..(index.numItems - 1)
  /\ \A i \in 1..Len(hist.pushed) :
       /\ hist.pushed[i] % 4 = 0
       /\ hist.pushed[i] \in ChildRunStarts(index)
       /\ hist.pushed[i] \in BoxPositions(index)
  /\ trav[1].phase # "idle" =>
       search_indices(index, trav[1].q) \subseteq 0..(index.numItems - 1)

\* A returned run on a tree of three levels with an empty slot that pushed
\* child runs, visited a leaf range untested and visited leaves one by one.
C30_Witness ==
  /\ SearchDone
  /\ Len(index.levelBounds) = 3
  /\ \E k \in 1..Len(rows) : rows[k] = empty
  /\ Len(hist.pushed) >= 2
  /\ hist.short # <<>>
  /\ \E a \in 1..Len(hist.short) : hist.short[a].pos >= 4 * size
  /\ trav[1].out # <<>>

====
